---------------------------- MODULE Spec2Model ----------------------------
(* A model of the muehle_mcts repository: the ring-and-mill board game     *)
(* (src/mühle.py) and the Monte Carlo Tree Search engine on top of it      *)
(* (src/mcts/base.py, src/mcts/simple.py).                                 *)
(*                                                                         *)
(* Positions are pairs <<ring, index>>.  Python dicts are sequences of     *)
(* <<key, value>> pairs in insertion order, Python lists are sequences,    *)
(* generators are the sequences of what they yield.  A call that raises    *)
(* records the exception's name in call.raised ("" when it returns).       *)
EXTENDS Integers, Sequences, FiniteSets, TLC

VARIABLES
    design,   \* the DefaultBoardDesign in use: [sides, extended]
    call,     \* the last call made: [op, args, ret]
    board,    \* a free-standing GameBoard: [fields, count]
    game,     \* the GameState being played
    driver,   \* the caller: the game it still plays and what it did with
              \* the search: [script, free, iterations, reroots, direct],
              \* and
              \* the original and the clone it plays side by side: twin
    mcts      \* the MCTS object: [node, nodes, expansion, simulation]

vars == <<design, call, board, game, driver, mcts>>

-----------------------------------------------------------------------------
(* Bounds and input sets *)

\* the values of sides the designs are constructed with
SidesSet == {3, 4}

-----------------------------------------------------------------------------
(* Generic helpers *)

Abs(x) == IF x < 0 THEN -x ELSE x

Min(x, y) == IF x < y THEN x ELSE y

Max(x, y) == IF x > y THEN x ELSE y

Range(s) == {s[i] : i \in 1..Len(s)}

\* the result of a call that returned v, and of one that raised exception e
Returned(v) == [value |-> v, raised |-> ""]

Raised(e) == [value |-> <<>>, raised |-> e]

-----------------------------------------------------------------------------
(* DefaultBoardDesign: the topology *)

NewDesign(sides, extended) == [sides |-> sides, extended |-> extended]

ring_size(d) == 2 * d.sides

Position(ring, index) == <<ring, index>>

\* the same-ring test with the modulus a slip would write: ring_size
\* instead of ring_size - 2, which loses the link between index 0 and the
\* last index of a ring
is_linked_to_plain_modulus(d, a, b) ==
    IF a[1] = b[1]
    THEN Abs(a[2] - b[2]) % ring_size(d) = 1
    ELSE IF a[2] = b[2]
         THEN IF d.extended \/ a[2] % 2 = 1
              THEN Abs(a[1] - b[1]) = 1
              ELSE FALSE
         ELSE FALSE

is_linked_to(d, a, b) ==
    IF a[1] = b[1]
    THEN Abs(a[2] - b[2]) % (ring_size(d) - 2) = 1
    ELSE IF a[2] = b[2]
         THEN IF d.extended \/ a[2] % 2 = 1
              THEN Abs(a[1] - b[1]) = 1
              ELSE FALSE
         ELSE FALSE

neighbors_of(d, pos) ==
    <<Position(pos[1], (pos[2] - 1) % ring_size(d)),
      Position(pos[1], (pos[2] + 1) % ring_size(d))>>
    \o (IF d.extended \/ pos[2] % 2 = 1
        THEN (IF pos[1] > 0 THEN <<Position(pos[1] - 1, pos[2])>> ELSE <<>>)
             \o (IF pos[1] < 2 THEN <<Position(pos[1] + 1, pos[2])>> ELSE <<>>)
        ELSE <<>>)

\* get_third_in_line without the special condition at the ring end/start
get_third_in_line_no_wrap(d, first, second) ==
    LET rs == ring_size(d)
        a  == Min(first[2], second[2])
        b  == Max(first[2], second[2])
        onRing ==
            IF b - a = 1
            THEN IF a % 2 = 0
                 THEN Returned(Position(first[1], (a + 2) % rs))
                 ELSE Returned(Position(first[1], (a - 1) % rs))
            ELSE IF b - a = 2
                 THEN IF a % 2 = 0
                      THEN Returned(Position(first[1], (a + 1) % rs))
                      ELSE Raised("ValueError")
                 ELSE Raised("ValueError")
        ra == Min(first[1], second[1])
        rb == Max(first[1], second[1])
        acrossRings ==
            IF ra = 0
            THEN IF rb = 1
                 THEN Returned(Position(2, first[2]))
                 ELSE Returned(Position(1, first[2]))
            ELSE Returned(Position(0, first[2]))
    IN  IF first[1] = second[1] /\ first[2] # second[2]
        THEN onRing
        ELSE IF first[1] # second[1] /\ first[2] = second[2]
                /\ (d.extended \/ first[2] % 2 = 1)
             THEN acrossRings
             ELSE Raised("ValueError")

get_third_in_line(d, first, second) ==
    LET rs == ring_size(d)
        a0 == Min(first[2], second[2])
        b0 == Max(first[2], second[2])
        \* Special condition at ring end/start
        a  == IF b0 - a0 > 2 THEN b0 ELSE a0
        b  == IF b0 - a0 > 2 THEN a0 + rs ELSE b0
        onRing ==
            IF b - a = 1
            THEN IF a % 2 = 0
                 THEN Returned(Position(first[1], (a + 2) % rs))
                 ELSE Returned(Position(first[1], (a - 1) % rs))
            ELSE IF b - a = 2
                 THEN IF a % 2 = 0
                      THEN Returned(Position(first[1], (a + 1) % rs))
                      ELSE Raised("ValueError")
                 ELSE Raised("ValueError")
        ra == Min(first[1], second[1])
        rb == Max(first[1], second[1])
        acrossRings ==
            IF ra = 0
            THEN IF rb = 1
                 THEN Returned(Position(2, first[2]))
                 ELSE Returned(Position(1, first[2]))
            ELSE Returned(Position(0, first[2]))
    IN  IF first[1] = second[1] /\ first[2] # second[2]
        THEN onRing
        ELSE IF first[1] # second[1] /\ first[2] = second[2]
                /\ (d.extended \/ first[2] % 2 = 1)
             THEN acrossRings
             ELSE Raised("ValueError")

iter_fields(d) ==
    [k \in 1..(3 * ring_size(d)) |->
        Position((k - 1) \div ring_size(d), (k - 1) % ring_size(d))]

iter_lines(d) ==
    LET rs == ring_size(d)
        ringParallel ==
            [k \in 1..(3 * d.sides) |->
                LET ring == (k - 1) \div d.sides
                    i    == ((k - 1) % d.sides) * 2
                IN  <<Position(ring, i), Position(ring, i + 1),
                      Position(ring, (i + 2) % rs)>>]
        betweenRings ==
            [k \in 1..rs |->
                <<Position(0, k - 1), Position(1, k - 1), Position(2, k - 1)>>]
        eligible(line) == d.extended \/ line[1][2] % 2 = 1
    IN  ringParallel \o SelectSeq(betweenRings, eligible)

\* iter_lines_of yielding, from an even position, only the line that
\* starts there and not the one that ends there
iter_lines_of_one_side(d, pos) ==
    LET rs == ring_size(d)
    IN  (IF d.extended \/ pos[2] % 2 = 1
         THEN <<<<Position((pos[1] + 1) % 3, pos[2]),
                  Position((pos[1] + 2) % 3, pos[2])>>>>
         ELSE <<>>)
        \o (IF pos[2] % 2 = 1
            THEN <<<<Position(pos[1], pos[2] - 1),
                     Position(pos[1], (pos[2] + 1) % rs)>>>>
            ELSE <<<<Position(pos[1], (pos[2] + 1) % rs),
                     Position(pos[1], (pos[2] + 2) % rs)>>>>)

iter_lines_of(d, pos) ==
    LET rs == ring_size(d)
    IN  (IF d.extended \/ pos[2] % 2 = 1
         THEN <<<<Position((pos[1] + 1) % 3, pos[2]),
                  Position((pos[1] + 2) % 3, pos[2])>>>>
         ELSE <<>>)
        \o (IF pos[2] % 2 = 1
            THEN <<<<Position(pos[1], pos[2] - 1),
                     Position(pos[1], (pos[2] + 1) % rs)>>>>
            ELSE <<<<Position(pos[1], (pos[2] - 1) % rs),
                     Position(pos[1], (pos[2] - 2) % rs)>>,
                   <<Position(pos[1], (pos[2] + 1) % rs),
                     Position(pos[1], (pos[2] + 2) % rs)>>>>)

\* the positions of the board, as a set
Fields(d) == Range(iter_fields(d))

-----------------------------------------------------------------------------
(* GameBoard: the occupancy map and the incremental piece counts *)

\* Python's None, where a piece (a player id) is expected
None == -1

PlayerIDs == {0, 1}

\* dict helpers; a dict is a sequence of <<key, value>> in insertion order
DictHas(f, key) == \E i \in 1..Len(f) : f[i][1] = key

DictGet(f, key) ==
    IF DictHas(f, key)
    THEN f[CHOOSE i \in 1..Len(f) : f[i][1] = key][2]
    ELSE None

DictDel(f, key) == SelectSeq(f, LAMBDA e : e[1] # key)

\* d[key] = value: an existing key keeps its place, a new one goes last
DictSet(f, key, value) ==
    IF DictHas(f, key)
    THEN [i \in 1..Len(f) |-> IF f[i][1] = key THEN <<key, value>> ELSE f[i]]
    ELSE Append(f, <<key, value>>)

\* the list _count with one entry changed
CountAdd(count, playerID, delta) ==
    [count EXCEPT ![playerID + 1] = @ + delta]

NewGameBoard == [fields |-> <<>>, count |-> <<0, 0>>]

board_clone(b) == [fields |-> b.fields, count |-> b.count]

board_count(b, playerID) == b.count[playerID + 1]

count_total(b) == <<b.count[1], b.count[2]>>

is_empty(b, pos) == ~DictHas(b.fields, pos)

iter_empty(b, d) == SelectSeq(iter_fields(d), LAMBDA pos : is_empty(b, pos))

\* iter_pieces with a playerID: the (pos, piece) items of that player
iter_pieces(b, playerID) == SelectSeq(b.fields, LAMBDA e : e[2] = playerID)

iter_mills(b, d, playerID) ==
    SelectSeq(iter_lines(d),
              LAMBDA line : \A k \in 1..3 : DictGet(b.fields, line[k]) = playerID)

all_mills_pos(b, d, playerID) ==
    UNION {Range(mill) : mill \in Range(iter_mills(b, d, playerID))}

iter_pieces_inside_mill(b, d, playerID) ==
    LET mills_pos == all_mills_pos(b, d, playerID)
    IN  SelectSeq(b.fields, LAMBDA e : e[2] = playerID /\ e[1] \in mills_pos)

iter_pieces_outside_mill(b, d, playerID) ==
    LET mills_pos == all_mills_pos(b, d, playerID)
    IN  SelectSeq(b.fields, LAMBDA e : e[2] = playerID /\ e[1] \notin mills_pos)

is_inside_a_mill(b, d, playerID, pos) ==
    LET lines == iter_lines_of(d, pos)
    IN  /\ DictGet(b.fields, pos) = playerID
        /\ \E i \in 1..Len(lines) :
              \A k \in 1..2 : DictGet(b.fields, lines[i][k]) = playerID

iter_ready_mills(b, d, playerID, pos) ==
    IF DictHas(b.fields, pos)   \* Not empty, so no mill is ready for pos
    THEN <<>>
    ELSE SelectSeq(iter_lines_of(d, pos),
                   LAMBDA pr : /\ DictGet(b.fields, pr[1]) = playerID
                               /\ DictGet(b.fields, pr[2]) = playerID)

\* The mutating methods give the board after the call, what the call
\* returned, which exception it raised ("" for none) and the source line
\* of the statement that raised.
BoardResult(b, value, raised, line) ==
    [board |-> b, value |-> value, raised |-> raised, line |-> line]

\* place that adds the piece without counting it
place_no_count(b, pos, piece) ==
    IF DictHas(b.fields, pos)
    THEN BoardResult(b, None, "AssertionError", 249)
    ELSE BoardResult([b EXCEPT !.fields = DictSet(b.fields, pos, piece)],
                     None, "", 0)

place(b, pos, piece) ==
    IF DictHas(b.fields, pos)
    THEN BoardResult(b, None, "AssertionError", 249)
    ELSE BoardResult([fields |-> DictSet(b.fields, pos, piece),
                      count  |-> CountAdd(b.count, piece, 1)],
                     None, "", 0)

board_get(b, pos) == DictGet(b.fields, pos)

jump(b, start, end) ==
    IF DictHas(b.fields, end)
    THEN BoardResult(b, None, "AssertionError", 261)
    ELSE IF ~DictHas(b.fields, start)
         THEN BoardResult(b, None, "KeyError", 262)
         ELSE BoardResult(
                 [b EXCEPT !.fields =
                     DictSet(DictDel(b.fields, start), end,
                             DictGet(b.fields, start))],
                 None, "", 0)

\* move without the test that start and end are linked
move_unchecked(b, d, start, end) == jump(b, start, end)

move(b, d, start, end) ==
    IF ~is_linked_to(d, start, end)
    THEN BoardResult(b, None, "AssertionError", 257)
    ELSE jump(b, start, end)

remove(b, pos) ==
    LET piece == DictGet(b.fields, pos)
    IN  IF piece # None
        THEN BoardResult([fields |-> DictDel(b.fields, pos),
                          count  |-> CountAdd(b.count, piece, -1)],
                         piece, "", 0)
        ELSE BoardResult(b, None, "", 0)

\* iter_available_moves giving every neighbour, empty or not
iter_available_moves_any_neighbor(b, d, pos) == neighbors_of(d, pos)

iter_available_moves(b, d, pos) ==
    SelectSeq(neighbors_of(d, pos), LAMBDA npos : ~DictHas(b.fields, npos))

-----------------------------------------------------------------------------
(* Action: Place / Move / Jump with an optional list of captured positions *)

\* Optional[List[Position]]: None is <<>>, the list l is <<l>>
NoAttacks == <<>>

SomeAttacks(l) == <<l>>

\* the truth value of action.attacks: neither None nor an empty list
HasAttacks(action) ==
    action.attacks # NoAttacks /\ action.attacks[1] # <<>>

\* the captured positions of an action, none when attacks is None
AttackList(action) ==
    IF action.attacks = NoAttacks THEN <<>> ELSE action.attacks[1]

\* Place has pos = end and no start; the field start is then the constant
\* NoStart, which is no position of any board
NoStart == <<None, None>>

PlaceAction(playerID, pos, attacks) ==
    [actiontype |-> "PLACE", playerID |-> playerID, attacks |-> attacks,
     start |-> NoStart, end |-> pos]

MoveAction(playerID, start, end, attacks) ==
    [actiontype |-> "MOVE", playerID |-> playerID, attacks |-> attacks,
     start |-> start, end |-> end]

JumpAction(playerID, start, end, attacks) ==
    [actiontype |-> "JUMP", playerID |-> playerID, attacks |-> attacks,
     start |-> start, end |-> end]

\* action_cls(*args, **kwargs) in enhance_with_attacks
MakeAction(actiontype, playerID, start, end, attacks) ==
    IF actiontype = "PLACE" THEN PlaceAction(playerID, end, attacks)
    ELSE IF actiontype = "MOVE" THEN MoveAction(playerID, start, end, attacks)
    ELSE JumpAction(playerID, start, end, attacks)

-----------------------------------------------------------------------------
(* GameState *)

\* the concatenation of a sequence of sequences
RECURSIVE Flatten(_)
Flatten(ss) == IF ss = <<>> THEN <<>> ELSE Head(ss) \o Flatten(Tail(ss))

\* itertools.combinations(s, k): the k-element subsequences of s, in
\* lexicographic order of their indices
RECURSIVE combinations(_, _)
combinations(s, k) ==
    IF k = 0 THEN <<<<>>>>
    ELSE IF Len(s) < k THEN <<>>
    ELSE [i \in 1..Len(combinations(Tail(s), k - 1)) |->
             <<Head(s)>> \o combinations(Tail(s), k - 1)[i]]
         \o combinations(Tail(s), k)

\* GameState(sides): an empty board, player 0 to move, nothing placed
NewGameState(sides) ==
    [placed_items     |-> <<0, 0>>,
     player_turn      |-> 0,
     board            |-> NewGameBoard,
     max_placed_items |-> (sides * 9) \div 4,
     frozen           |-> FALSE]

freeze(g) == [g EXCEPT !.frozen = TRUE]

\* clone: a GameState() whose fields are then overwritten; frozen stays False
state_clone(g) ==
    [placed_items     |-> g.placed_items,
     player_turn      |-> g.player_turn,
     board            |-> board_clone(g.board),
     max_placed_items |-> g.max_placed_items,
     frozen           |-> FALSE]

other(playerID) == (playerID + 1) % 2

calc_available_attacks(g, d, playerID) ==
    LET otherID == other(playerID)
        outside == iter_pieces_outside_mill(g.board, d, otherID)
        inside  == iter_pieces_inside_mill(g.board, d, otherID)
    IN  IF outside # <<>> THEN outside
        ELSE IF inside # <<>> THEN inside
        ELSE <<>>

\* enhance_with_attacks taking the capture combinations from all pieces of
\* the opponent, inside a mill or not
enhance_with_attacks_any_piece(g, d, playerID, actiontype, start, pos) ==
    LET available_attacks == iter_pieces(g.board, other(playerID))
        mills == iter_ready_mills(g.board, d, playerID, pos)
        combs == combinations(available_attacks, Len(mills))
    IN  IF mills # <<>>
        THEN [i \in 1..Len(combs) |->
                 MakeAction(actiontype, playerID, start, pos,
                     SomeAttacks([j \in 1..Len(combs[i]) |-> combs[i][j][1]]))]
        ELSE <<MakeAction(actiontype, playerID, start, pos, NoAttacks)>>

\* the actions generated for one candidate: the action class with its
\* positional arguments (start, pos) and the destination pos
enhance_with_attacks(g, d, playerID, actiontype, start, pos) ==
    LET available_attacks == calc_available_attacks(g, d, playerID)
        mills == iter_ready_mills(g.board, d, playerID, pos)
        combs == combinations(available_attacks, Len(mills))
    IN  IF mills # <<>>
        THEN [i \in 1..Len(combs) |->
                 MakeAction(actiontype, playerID, start, pos,
                     SomeAttacks([j \in 1..Len(combs[i]) |-> combs[i][j][1]]))]
        ELSE <<MakeAction(actiontype, playerID, start, pos, NoAttacks)>>

\* the candidates of the phase the player is in, in generation order:
\* <<actiontype, start, destination>>
\* (the phase test with >= 3 in place of > 3: a player with exactly three
\* pieces would slide, not jump)
candidates_move_at_three(g, d, playerID) ==
    LET player_board_count == board_count(g.board, playerID)
        empties == iter_empty(g.board, d)
        pieces  == iter_pieces(g.board, playerID)
    IN  IF g.placed_items[playerID + 1] < g.max_placed_items
        THEN [i \in 1..Len(empties) |-> <<"PLACE", NoStart, empties[i]>>]
        ELSE IF player_board_count >= 3
        THEN Flatten([i \in 1..Len(pieces) |->
                LET moves == iter_available_moves(g.board, d, pieces[i][1])
                IN  [j \in 1..Len(moves) |-> <<"MOVE", pieces[i][1], moves[j]>>]])
        ELSE <<>>

candidates(g, d, playerID) ==
    LET player_board_count == board_count(g.board, playerID)
        empties == iter_empty(g.board, d)
        pieces  == iter_pieces(g.board, playerID)
    IN  \* Check if in placing game phase
        IF g.placed_items[playerID + 1] < g.max_placed_items
        THEN [i \in 1..Len(empties) |-> <<"PLACE", NoStart, empties[i]>>]
        \* Normal move phase
        ELSE IF player_board_count > 3
        THEN Flatten([i \in 1..Len(pieces) |->
                LET moves == iter_available_moves(g.board, d, pieces[i][1])
                IN  [j \in 1..Len(moves) |-> <<"MOVE", pieces[i][1], moves[j]>>]])
        \* Check if in jumping game phase
        ELSE IF player_board_count = 3
        THEN Flatten([i \in 1..Len(pieces) |->
                [j \in 1..Len(empties) |-> <<"JUMP", pieces[i][1], empties[j]>>]])
        ELSE <<>>

calc_available_actions_of(g, d, playerID) ==
    LET cands == candidates(g, d, playerID)
    IN  Flatten([i \in 1..Len(cands) |->
            enhance_with_attacks(g, d, playerID,
                                 cands[i][1], cands[i][2], cands[i][3])])

\* calc_available_actions(): for the side to move
calc_available_actions(g, d) == calc_available_actions_of(g, d, g.player_turn)

\* What execute leaves behind: the state after the call (changed in part
\* when the call raised half-way), the exception and its source line.
StateResult(g, raised, line) == [state |-> g, raised |-> raised, line |-> line]

\* the loop over action.attacks from the k-th position on
RECURSIVE execute_attacks(_, _, _, _)
execute_attacks(g, playerID, attacks, k) ==
    IF k > Len(attacks)
    THEN StateResult(g, "", 0)
    ELSE LET r  == remove(g.board, attacks[k])
             g1 == [g EXCEPT !.board = r.board]
         IN  IF r.value = None
             THEN StateResult(g1, "AttributeError", 469)
             ELSE IF r.value = playerID
                  THEN StateResult(g1, "AssertionError", 469)
                  ELSE execute_attacks(g1, playerID, attacks, k + 1)

\* execute without the test of the side to move
execute_any_turn(g, d, action) ==
    LET playerID == action.playerID
        mover ==
            IF action.actiontype = "PLACE"
            THEN IF ~(g.placed_items[playerID + 1] < g.max_placed_items)
                 THEN StateResult(g, "AssertionError", 447)
                 ELSE LET r == place(g.board, action.end, playerID)
                      IN  IF r.raised # ""
                          THEN StateResult(g, r.raised, r.line)
                          ELSE StateResult(
                                  [g EXCEPT !.board = r.board,
                                            !.placed_items[playerID + 1] = @ + 1],
                                  "", 0)
            ELSE IF action.actiontype \in {"MOVE", "JUMP"}
            THEN LET piece == board_get(g.board, action.start)
                     r == IF action.actiontype = "MOVE"
                          THEN move(g.board, d, action.start, action.end)
                          ELSE jump(g.board, action.start, action.end)
                 IN  IF piece = None
                     THEN StateResult(g, "AssertionError",
                              IF action.actiontype = "MOVE" THEN 453 ELSE 459)
                     ELSE IF piece # playerID
                     THEN StateResult(g, "AssertionError",
                              IF action.actiontype = "MOVE" THEN 454 ELSE 460)
                     ELSE StateResult([g EXCEPT !.board = r.board],
                                      r.raised, r.line)
            ELSE StateResult(g, "ValueError", 464)
        attacked ==
            IF HasAttacks(action)
            THEN execute_attacks(mover.state, playerID, AttackList(action), 1)
            ELSE mover
    IN  IF g.frozen
        THEN StateResult(g, "AssertionError", 441)
        ELSE IF mover.raised # "" THEN mover
        ELSE IF attacked.raised # "" THEN attacked
        ELSE StateResult(
                [attacked.state EXCEPT !.player_turn = other(g.player_turn)],
                "", 0)

execute(g, d, action) ==
    LET playerID == action.playerID
        mover ==
            IF action.actiontype = "PLACE"
            THEN IF ~(g.placed_items[playerID + 1] < g.max_placed_items)
                 THEN StateResult(g, "AssertionError", 447)
                 ELSE LET r == place(g.board, action.end, playerID)
                      IN  IF r.raised # ""
                          THEN StateResult(g, r.raised, r.line)
                          ELSE StateResult(
                                  [g EXCEPT !.board = r.board,
                                            !.placed_items[playerID + 1] = @ + 1],
                                  "", 0)
            ELSE IF action.actiontype \in {"MOVE", "JUMP"}
            THEN LET piece == board_get(g.board, action.start)
                     r == IF action.actiontype = "MOVE"
                          THEN move(g.board, d, action.start, action.end)
                          ELSE jump(g.board, action.start, action.end)
                 IN  IF piece = None
                     THEN StateResult(g, "AssertionError",
                              IF action.actiontype = "MOVE" THEN 453 ELSE 459)
                     ELSE IF piece # playerID
                     THEN StateResult(g, "AssertionError",
                              IF action.actiontype = "MOVE" THEN 454 ELSE 460)
                     ELSE StateResult([g EXCEPT !.board = r.board],
                                      r.raised, r.line)
            ELSE StateResult(g, "ValueError", 464)
        attacked ==
            IF HasAttacks(action)
            THEN execute_attacks(mover.state, playerID, AttackList(action), 1)
            ELSE mover
    IN  IF g.frozen
        THEN StateResult(g, "AssertionError", 441)
        ELSE IF playerID # g.player_turn
        THEN StateResult(g, "AssertionError", 444)
        ELSE IF mover.raised # "" THEN mover
        ELSE IF attacked.raised # "" THEN attacked
        ELSE StateResult(
                [attacked.state EXCEPT !.player_turn = other(g.player_turn)],
                "", 0)

-----------------------------------------------------------------------------
(* GameState objects side by side.  Where two GameState objects exist at   *)
(* once, their mutable containers (the dict board.fields, the list         *)
(* board._count, the dict placed_items) are cells of a heap, and an object *)
(* holds the places of its cells and its own attributes player_turn,       *)
(* max_placed_items and frozen.                                            *)

\* no object
NoObject ==
    [placed_items |-> 0, fields |-> 0, count |-> 0, player_turn |-> 0,
     max_placed_items |-> 0, frozen |-> FALSE]

\* the GameState the object o is, read from heap h
Load(h, o) ==
    [placed_items     |-> h[o.placed_items],
     player_turn      |-> o.player_turn,
     board            |-> [fields |-> h[o.fields], count |-> h[o.count]],
     max_placed_items |-> o.max_placed_items,
     frozen           |-> o.frozen]

\* a new object with new containers holding what g holds
Allocate(h, g) ==
    [heap   |-> h \o <<g.placed_items, g.board.fields, g.board.count>>,
     object |-> [placed_items     |-> Len(h) + 1,
                 fields           |-> Len(h) + 2,
                 count            |-> Len(h) + 3,
                 player_turn      |-> g.player_turn,
                 max_placed_items |-> g.max_placed_items,
                 frozen           |-> g.frozen]]

\* clone with a board that keeps the list _count of the original instead
\* of a copy of it
clone_object_shared_count(h, o) ==
    LET a == Allocate(h, state_clone(Load(h, o)))
    IN  [heap |-> a.heap, object |-> [a.object EXCEPT !.count = o.count]]

\* o.clone(): defaultdict(..., self.placed_items), dict(self.fields) and
\* list(self._count) are new containers
clone_object(h, o) == Allocate(h, state_clone(Load(h, o)))

\* what execute left behind, r, written to the containers of o
Stored(h, o, r) ==
    [heap   |-> [h EXCEPT ![o.placed_items] = r.state.placed_items,
                          ![o.fields] = r.state.board.fields,
                          ![o.count] = r.state.board.count],
     object |-> [o EXCEPT !.player_turn = r.state.player_turn],
     raised |-> r.raised,
     line   |-> r.line]

\* o.execute(action): the containers of o are changed in place, player_turn
\* is rebound
execute_object(h, d, o, action) ==
    Stored(h, o, execute(Load(h, o), d, action))

\* the caller's original and clone: no clone taken
NoTwin == [heap |-> <<>>, original |-> NoObject, clone |-> NoObject,
           same |-> FALSE]

-----------------------------------------------------------------------------
(* MCTS: nodes, the simple policies and the search object.  The nodes of a *)
(* search live in the sequence mcts.nodes and refer to each other by their *)
(* place in it; a node no longer referenced stays where it is.             *)

\* the float reward_total and the quotients computed from it are kept as
\* exact fractions <<numerator, denominator>> in lowest terms
RECURSIVE GCD(_, _)
GCD(a, b) == IF b = 0 THEN a ELSE GCD(b, a % b)

Frac(n, d) == LET g == GCD(Abs(n), d) IN <<n \div g, d \div g>>

FracAdd(x, y) == Frac(x[1] * y[2] + y[1] * x[2], x[2] * y[2])

FracDiv(x, n) == Frac(x[1], x[2] * n)

FracLess(x, y) == x[1] * y[2] < y[1] * x[2]

\* del data[index]
RemoveAt(data, index) ==
    SubSeq(data, 1, index - 1) \o SubSeq(data, index + 1, Len(data))

\* parent = None, and select_from returning None
NoNode == 0

\* MCTS_Node without the call of state.freeze()
MCTS_Node_not_frozen(state, d, parent) ==
    [state             |-> state,
     parent            |-> parent,
     remaining_actions |-> calc_available_actions(state, d),
     children          |-> <<>>,
     visited           |-> 0,
     simulations       |-> 0,
     reward_total      |-> Frac(0, 1)]

\* MCTS_Node(state, parent): state is frozen by the constructor
MCTS_Node(state, d, parent) ==
    [state             |-> freeze(state),
     parent            |-> parent,
     remaining_actions |-> calc_available_actions(state, d),
     children          |-> <<>>,
     visited           |-> 0,
     simulations       |-> 0,
     reward_total      |-> Frac(0, 1)]

SimulationResult(steps, winner, pieces_left) ==
    [steps |-> steps, winner |-> winner, pieces_left |-> pieces_left]

SimpleSimulationPolicy(player, max_depth, branching, branching_depth) ==
    [player |-> player, max_depth |-> max_depth, branching |-> branching,
     branching_depth |-> branching_depth]

\* random.randint(a, b): the numbers the random source is taken to give,
\* the two ends of the range
randint(a, b) == {a, b}

\* pop_random_from_list(data): the places of data (counted from 1) it may
\* pop
pop_random_from_list(data) ==
    {index + 1 : index \in randint(0, Len(data) - 1)}

\* take_action: the places of actions it may pop, among those of the
\* actions with captures when there are any
take_action(actions) ==
    LET places == [n \in 1..Len(actions) |-> n]
        actions_with_attack ==
            SelectSeq(places, LAMBDA n : HasAttacks(actions[n]))
    IN  IF actions_with_attack # <<>>
        THEN {actions_with_attack[k] :
                 k \in pop_random_from_list(actions_with_attack)}
        ELSE pop_random_from_list(actions)

\* What a generator of playouts can give: the list of its results, or the
\* exception that ended it
Playouts(results, raised) == [results |-> results, raised |-> raised]

\* _iter_simulate: the set of lists of results the random choices allow.
\* iter_simulate_branches is its loop over range(0, min(branching,
\* len(actions))) with n rounds left.
RECURSIVE iter_simulate(_, _, _, _, _)
RECURSIVE iter_simulate_branches(_, _, _, _, _, _)
\* _iter_simulate looking for a side without actions before it looks at
\* the depth
iter_simulate_actions_first(sim, d, state, actions, steps) ==
    IF actions = <<>>
    THEN {Playouts(<<SimulationResult(steps, other(state.player_turn),
                                      count_total(state.board))>>, "")}
    ELSE IF steps >= sim.max_depth
    THEN {Playouts(<<SimulationResult(steps, None,
                                      count_total(state.board))>>, "")}
    ELSE IF sim.branching > 1 /\ steps < sim.branching_depth
    THEN iter_simulate_branches(sim, d, state, actions, steps,
                                Min(sim.branching, Len(actions)))
    ELSE UNION {
            LET r == execute(state, d, actions[n])
            IN  IF r.raised # ""
                THEN {Playouts(<<>>, r.raised)}
                ELSE iter_simulate(sim, d, r.state,
                         calc_available_actions(r.state, d), steps + 1)
            : n \in take_action(actions)}

iter_simulate(sim, d, state, actions, steps) ==
    IF steps >= sim.max_depth
    THEN {Playouts(<<SimulationResult(steps, None,
                                      count_total(state.board))>>, "")}
    ELSE IF actions = <<>>
    THEN {Playouts(<<SimulationResult(steps, other(state.player_turn),
                                      count_total(state.board))>>, "")}
    ELSE IF sim.branching > 1 /\ steps < sim.branching_depth
    THEN iter_simulate_branches(sim, d, state, actions, steps,
                                Min(sim.branching, Len(actions)))
    ELSE UNION {
            LET r == execute(state, d, actions[n])
            IN  IF r.raised # ""
                THEN {Playouts(<<>>, r.raised)}
                ELSE iter_simulate(sim, d, r.state,
                         calc_available_actions(r.state, d), steps + 1)
            : n \in take_action(actions)}

iter_simulate_branches(sim, d, state, actions, steps, n) ==
    IF n = 0
    THEN {Playouts(<<>>, "")}
    ELSE UNION {
            LET r == execute(state_clone(state), d, actions[i])
                first == IF r.raised # ""
                         THEN {Playouts(<<>>, r.raised)}
                         ELSE iter_simulate(sim, d, r.state,
                                  calc_available_actions(r.state, d),
                                  steps + 1)
                rest == iter_simulate_branches(sim, d, state,
                            RemoveAt(actions, i), steps, n - 1)
            IN  {IF a.raised # "" THEN a
                 ELSE IF b.raised # "" THEN b
                 ELSE Playouts(a.results \o b.results, "")
                 : a \in first, b \in rest}
            : i \in take_action(actions)}

\* the loop of simulate over the results from the k-th on: reward so far
RECURSIVE simulate_reward(_, _, _)
simulate_reward(sim, results, k) ==
    IF k > Len(results)
    THEN Frac(0, 1)
    ELSE LET pieces_player == results[k].pieces_left[sim.player + 1]
             pieces_other  == results[k].pieces_left[other(sim.player) + 1]
         IN  FracAdd(Frac(2 * (pieces_player - pieces_other),
                          pieces_player + pieces_other),
                     simulate_reward(sim, results, k + 1))

\* simulate counting every playout: simulations += len(results)
simulate_counts_playouts(sim, d, node) ==
    LET state == state_clone(node.state)
    IN  {IF p.raised # ""
         THEN [node |-> node, raised |-> p.raised]
         ELSE IF \E k \in 1..Len(p.results) :
                     p.results[k].pieces_left[1] + p.results[k].pieces_left[2] = 0
         THEN [node |-> node, raised |-> "ZeroDivisionError"]
         ELSE [node |-> [node EXCEPT
                   !.reward_total =
                       FracAdd(@, FracDiv(simulate_reward(sim, p.results, 1),
                                          Len(p.results))),
                   !.simulations = @ + Len(p.results)],
               raised |-> ""]
         : p \in iter_simulate(sim, d, state,
                               calc_available_actions(state, d), 0)}

\* simulate(node): the set of what the node can be afterwards, with the
\* exception raised, if any
simulate(sim, d, node) ==
    LET state == state_clone(node.state)
    IN  {IF p.raised # ""
         THEN [node |-> node, raised |-> p.raised]
         ELSE IF \E k \in 1..Len(p.results) :
                     p.results[k].pieces_left[1] + p.results[k].pieces_left[2] = 0
         THEN [node |-> node, raised |-> "ZeroDivisionError"]
         ELSE [node |-> [node EXCEPT
                   !.reward_total =
                       FracAdd(@, FracDiv(simulate_reward(sim, p.results, 1),
                                          Len(p.results))),
                   !.simulations = @ + 1],
               raised |-> ""]
         : p \in iter_simulate(sim, d, state,
                               calc_available_actions(state, d), 0)}

\* math.log(n) in thousandths, rounded, for n = 1 .. Len(LnMilli)
LnMilli ==
    <<0, 693, 1099, 1386, 1609, 1792, 1946, 2079, 2197, 2303, 2398, 2485,
      2565, 2639, 2708, 2773, 2833, 2890, 2944, 2996, 3045, 3091, 3135, 3178,
      3219, 3258, 3296, 3332, 3367, 3401, 3434, 3466, 3497, 3526, 3555, 3584,
      3611, 3638, 3664, 3689, 3714, 3738, 3761, 3784, 3807, 3829, 3850, 3871>>

\* the integer part of math.sqrt(x), found by bisection of lo..hi
RECURSIVE ISqrtIn(_, _, _)
ISqrtIn(x, lo, hi) ==
    IF lo >= hi THEN lo
    ELSE LET mid == (lo + hi + 1) \div 2
         IN  IF mid * mid <= x THEN ISqrtIn(x, mid, hi)
             ELSE ISqrtIn(x, lo, mid - 1)

ISqrt(x) == ISqrtIn(x, 0, Min(x, 46340))

\* UCB1 in thousandths, off by less than UCB1Error
UCB1Milli(node, ln_simulations_total) ==
    (node.reward_total[1] * 1000) \div (node.reward_total[2] * node.simulations)
    + ISqrt((2 * ln_simulations_total * 1000) \div node.simulations)

UCB1Error == 3

\* How UCB1(a, ln) and UCB1(b, ln) of two children of parent compare:
\* "lt", "eq", "gt", or "any" when the thousandths cannot tell.  With equal
\* simulations, or with ln = 0, the square roots are equal and the exact
\* quotients decide.
UCB1Compare(parent, a, b) ==
    LET mean_a == FracDiv(a.reward_total, a.simulations)
        mean_b == FracDiv(b.reward_total, b.simulations)
    IN  IF a.simulations = b.simulations \/ parent.simulations = 1
        THEN IF FracLess(mean_a, mean_b) THEN "lt"
             ELSE IF FracLess(mean_b, mean_a) THEN "gt"
             ELSE "eq"
        ELSE IF parent.simulations > Len(LnMilli)
        THEN "any"
        ELSE LET ln == LnMilli[parent.simulations]
                 ua == UCB1Milli(a, ln)
                 ub == UCB1Milli(b, ln)
             IN  IF ua + 2 * UCB1Error < ub THEN "lt"
                 ELSE IF ub + 2 * UCB1Error < ua THEN "gt"
                 ELSE "any"

\* children[0] after children.sort(key=UCB1, reverse=True): the sort is
\* stable, so it is the first registered child among those of maximal UCB1
BestUCB1(nodes, node) ==
    LET kid(i) == nodes[node.children[i][2]]
    IN  {node.children[i][2] : i \in
            {i \in 1..Len(node.children) :
                /\ \A j \in 1..(i - 1) :
                      UCB1Compare(node, kid(j), kid(i)) \in {"lt", "any"}
                /\ \A j \in (i + 1)..Len(node.children) :
                      UCB1Compare(node, kid(j), kid(i)) \in {"lt", "eq", "any"}}}

\* select_from raising: math.log(0), and the division by simulations = 0
LogError == -1

DivError == -2

\* select_from(node): the nodes it may return, NoNode for None
RECURSIVE select_from(_, _)
\* select_from descending into the children of a node as soon as it has
\* any, whether or not actions remain
select_from_children_first(nodes, id) ==
    LET node == nodes[id]
    IN  IF node.children # <<>>
        THEN IF node.simulations <= 0
             THEN {LogError}
             ELSE IF \E i \in 1..Len(node.children) :
                        nodes[node.children[i][2]].simulations = 0
             THEN {DivError}
             ELSE UNION {select_from(nodes, best) :
                            best \in BestUCB1(nodes, node)}
        ELSE IF node.remaining_actions # <<>>
        THEN {id}
        ELSE {NoNode}

select_from(nodes, id) ==
    LET node == nodes[id]
    IN  IF node.remaining_actions # <<>>   \* Not fully expanded
        THEN {id}
        ELSE IF node.children # <<>>
        THEN IF node.simulations <= 0
             THEN {LogError}
             ELSE IF \E i \in 1..Len(node.children) :
                        nodes[node.children[i][2]].simulations = 0
             THEN {DivError}
             ELSE UNION {select_from(nodes, best) :
                            best \in BestUCB1(nodes, node)}
        ELSE {NoNode}   \* Terminal node

\* the nodes above id: its parent, the parent of that, up to the node
\* whose parent is None
RECURSIVE ParentChain(_, _)
ParentChain(nodes, id) ==
    IF nodes[id].parent = NoNode THEN {}
    ELSE {nodes[id].parent} \cup ParentChain(nodes, nodes[id].parent)

RECURSIVE backpropagate(_, _)
\* backpropagate adding the simulations and reward_total of the node it
\* was called with to every node above it
backpropagate_leaf_values(nodes, id) ==
    [k \in 1..Len(nodes) |->
        IF k \in ParentChain(nodes, id)
        THEN [nodes[k] EXCEPT
                 !.simulations = @ + nodes[id].simulations,
                 !.reward_total = FracAdd(@, nodes[id].reward_total),
                 !.visited = @ + 1]
        ELSE nodes[k]]

\* backpropagate stopping at the parent of the node it was called with
backpropagate_parent_only(nodes, id) ==
    IF nodes[id].parent # NoNode
    THEN LET parent == nodes[id].parent
         IN  [nodes EXCEPT
                 ![parent].simulations = @ + nodes[id].simulations,
                 ![parent].reward_total = FracAdd(@, nodes[id].reward_total),
                 ![parent].visited = @ + 1]
    ELSE nodes

backpropagate(nodes, id) ==
    IF nodes[id].parent # NoNode
    THEN LET parent == nodes[id].parent
         IN  backpropagate(
                 [nodes EXCEPT
                     ![parent].simulations = @ + nodes[id].simulations,
                     ![parent].reward_total =
                         FracAdd(@, nodes[id].reward_total),
                     ![parent].visited = @ + 1],
                 parent)
    ELSE nodes

\* What a step of the search leaves behind: the nodes, the value returned
\* and the exception raised
SearchResult(nodes, value, raised) ==
    [nodes |-> nodes, value |-> value, raised |-> raised]

\* the loop of run_one_iteration over the children that expand(node)
\* yields, with n of them still to come: pop a random remaining action,
\* execute it on a clone, register the child, simulate it, backpropagate
RECURSIVE expand(_, _, _, _, _)
\* expand reading the random action without taking it out of
\* remaining_actions
expand_keeps_action(simulation, d, nodes, id, n) ==
    IF n = 0
    THEN {SearchResult(nodes, TRUE, "")}
    ELSE UNION {
            LET action == nodes[id].remaining_actions[index]
                r      == execute(state_clone(nodes[id].state), d, action)
                child  == Len(nodes) + 1
                added  == Append([nodes EXCEPT
                                     ![id].children = DictSet(@, action, child)],
                                 MCTS_Node(r.state, d, id))
            IN  IF r.raised # ""
                THEN {SearchResult(nodes, FALSE, r.raised)}
                ELSE UNION {
                        IF s.raised # ""
                        THEN {SearchResult(added, FALSE, s.raised)}
                        ELSE expand(simulation, d,
                                 backpropagate([added EXCEPT ![child] = s.node],
                                               child),
                                 id, n - 1)
                        : s \in simulate(simulation, d, added[child])}
            : index \in pop_random_from_list(nodes[id].remaining_actions)}

\* the loop of run_one_iteration simulating the children without
\* backpropagating them
expand_no_backpropagate(simulation, d, nodes, id, n) ==
    IF n = 0
    THEN {SearchResult(nodes, TRUE, "")}
    ELSE UNION {
            LET action == nodes[id].remaining_actions[index]
                popped == [nodes EXCEPT
                              ![id].remaining_actions = RemoveAt(@, index)]
                r      == execute(state_clone(nodes[id].state), d, action)
                child  == Len(nodes) + 1
                added  == Append([popped EXCEPT
                                     ![id].children = DictSet(@, action, child)],
                                 MCTS_Node(r.state, d, id))
            IN  IF r.raised # ""
                THEN {SearchResult(popped, FALSE, r.raised)}
                ELSE UNION {
                        IF s.raised # ""
                        THEN {SearchResult(added, FALSE, s.raised)}
                        ELSE expand(simulation, d,
                                 [added EXCEPT ![child] = s.node], id, n - 1)
                        : s \in simulate(simulation, d, added[child])}
            : index \in pop_random_from_list(nodes[id].remaining_actions)}

expand(simulation, d, nodes, id, n) ==
    IF n = 0
    THEN {SearchResult(nodes, TRUE, "")}
    ELSE UNION {
            LET action == nodes[id].remaining_actions[index]
                popped == [nodes EXCEPT
                              ![id].remaining_actions = RemoveAt(@, index)]
                r      == execute(state_clone(nodes[id].state), d, action)
                child  == Len(nodes) + 1
                added  == Append([popped EXCEPT
                                     ![id].children = DictSet(@, action, child)],
                                 MCTS_Node(r.state, d, id))
            IN  IF r.raised # ""
                THEN {SearchResult(popped, FALSE, r.raised)}
                ELSE UNION {
                        IF s.raised # ""
                        THEN {SearchResult(added, FALSE, s.raised)}
                        ELSE expand(simulation, d,
                                 backpropagate([added EXCEPT ![child] = s.node],
                                               child),
                                 id, n - 1)
                        : s \in simulate(simulation, d, added[child])}
            : index \in pop_random_from_list(nodes[id].remaining_actions)}

\* run_one_iteration counting an iteration without a selected node as a
\* visit of the root
run_one_iteration_counts_visit(m, d) ==
    UNION {
        IF node = LogError
        THEN {SearchResult(m.nodes, FALSE, "ValueError")}
        ELSE IF node = DivError
        THEN {SearchResult(m.nodes, FALSE, "ZeroDivisionError")}
        ELSE IF node # NoNode
        THEN expand(m.simulation, d, m.nodes, node,
                    Min(m.expansion.branching,
                        Len(m.nodes[node].remaining_actions)))
        ELSE {SearchResult([m.nodes EXCEPT ![m.node].visited = @ + 1],
                           FALSE, "")}
        : node \in select_from(m.nodes, m.node)}

\* run_one_iteration: the set of what it can leave behind
run_one_iteration(m, d) ==
    UNION {
        IF node = LogError
        THEN {SearchResult(m.nodes, FALSE, "ValueError")}
        ELSE IF node = DivError
        THEN {SearchResult(m.nodes, FALSE, "ZeroDivisionError")}
        ELSE IF node # NoNode
        THEN expand(m.simulation, d, m.nodes, node,
                    Min(m.expansion.branching,
                        Len(m.nodes[node].remaining_actions)))
        ELSE {SearchResult(m.nodes, FALSE, "")}
        : node \in select_from(m.nodes, m.node)}

\* calc_action_rewards: (reward_total / simulations, action, child) per child
calc_action_rewards(nodes, id) ==
    [i \in 1..Len(nodes[id].children) |->
        LET c == nodes[nodes[id].children[i][2]]
        IN  <<FracDiv(c.reward_total, c.simulations),
              nodes[id].children[i][1], nodes[id].children[i][2]>>]

\* list.sort(key=lambda e: e[0], reverse=True): stable, an element goes
\* behind those before it in the list whose key is not smaller
RECURSIVE sort_reverse(_)
sort_reverse(list) ==
    IF list = <<>> THEN <<>>
    ELSE LET init   == sort_reverse(SubSeq(list, 1, Len(list) - 1))
             e      == list[Len(list)]
             ahead  == {k \in 1..Len(init) : ~FracLess(init[k][1], e[1])}
             n      == IF ahead = {} THEN 0
                       ELSE CHOOSE k \in ahead : \A j \in ahead : j <= k
         IN  SubSeq(init, 1, n) \o <<e>> \o SubSeq(init, n + 1, Len(init))

\* calc_best_action taking the last element of the list sorted upwards
calc_best_action_last_of_sorted(nodes, id) ==
    LET children == sort_reverse(calc_action_rewards(nodes, id))
        best == {k \in 1..Len(children) :
                    ~FracLess(children[k][1], children[1][1])}
    IN  children[CHOOSE k \in best : \A j \in best : j <= k]

calc_best_action(nodes, id) ==
    LET children == sort_reverse(calc_action_rewards(nodes, id))
    IN  children[1]

\* the MCTS object built by init_mcts with the policies' parameters
MCTS(root, d, expansion, simulation) ==
    [node       |-> 1,
     nodes      |-> <<MCTS_Node(root, d, NoNode)>>,
     expansion  |-> expansion,
     simulation |-> simulation]

\* no MCTS object constructed yet
NoMCTS ==
    [node |-> NoNode, nodes |-> <<>>, expansion |-> [branching |-> 0],
     simulation |-> SimpleSimulationPolicy(0, 0, 0, 0)]

\* select_best that leaves the parent reference of the new root in place
select_best_keep_parent(m) ==
    IF m.nodes[m.node].children = <<>>
    THEN [mcts |-> m, value |-> <<>>, raised |-> "AssertionError"]
    ELSE IF \E i \in 1..Len(m.nodes[m.node].children) :
               m.nodes[m.nodes[m.node].children[i][2]].simulations = 0
    THEN [mcts |-> m, value |-> <<>>, raised |-> "ZeroDivisionError"]
    ELSE LET best == calc_best_action(m.nodes, m.node)
         IN  [mcts   |-> [m EXCEPT !.node = best[3]],
              value  |-> <<best[2], best[3]>>,
              raised |-> ""]

\* select_best: the search afterwards, with <<action, child>> returned
select_best(m) ==
    IF m.nodes[m.node].children = <<>>
    THEN [mcts |-> m, value |-> <<>>, raised |-> "AssertionError"]
    ELSE IF \E i \in 1..Len(m.nodes[m.node].children) :
               m.nodes[m.nodes[m.node].children[i][2]].simulations = 0
    THEN [mcts |-> m, value |-> <<>>, raised |-> "ZeroDivisionError"]
    ELSE LET best == calc_best_action(m.nodes, m.node)
         IN  [mcts   |-> [m EXCEPT !.node = best[3],
                                   !.nodes[best[3]].parent = NoNode],
              value  |-> <<best[2], best[3]>>,
              raised |-> ""]

\* select_other reusing the child without clearing its parent reference
select_other_keep_parent(m, d, action, g) ==
    IF DictHas(m.nodes[m.node].children, action)
    THEN LET child == DictGet(m.nodes[m.node].children, action)
         IN  [m EXCEPT !.node = child]
    ELSE [m EXCEPT !.node = Len(m.nodes) + 1,
                   !.nodes = Append(@, MCTS_Node(g, d, NoNode))]

\* select_other(action, game)
select_other(m, d, action, g) ==
    IF DictHas(m.nodes[m.node].children, action)
    THEN LET child == DictGet(m.nodes[m.node].children, action)
         IN  [m EXCEPT !.node = child, !.nodes[child].parent = NoNode]
    ELSE [m EXCEPT !.node = Len(m.nodes) + 1,
                   !.nodes = Append(@, MCTS_Node(g, d, NoNode))]

-----------------------------------------------------------------------------
(* Specification SpecTopo: the pure functions of DefaultBoardDesign, called *)
(* with every pair of positions of every design *)

Designs == {NewDesign(s, e) : s \in SidesSet, e \in BOOLEAN}

NoCall == [op |-> "none", args |-> <<>>, ret |-> Returned(<<>>)]

NoDriver ==
    [script |-> <<>>, free |-> 0, iterations |-> 0, reroots |-> 0,
     direct |-> 0, twin |-> NoTwin]

InitTopo ==
    /\ design \in Designs
    /\ call = NoCall
    /\ board = NewGameBoard
    /\ game = NewGameState(design.sides)
    /\ driver = NoDriver
    /\ mcts = NoMCTS

CallIsLinkedTo ==
    \E a \in Fields(design), b \in Fields(design) :
        /\ call' = [op |-> "is_linked_to", args |-> <<a, b>>,
                    ret |-> Returned(is_linked_to(design, a, b))]
        /\ UNCHANGED <<design, board, game, driver, mcts>>

CallNeighborsOf ==
    \E p \in Fields(design) :
        /\ call' = [op |-> "neighbors_of", args |-> <<p>>,
                    ret |-> Returned(neighbors_of(design, p))]
        /\ UNCHANGED <<design, board, game, driver, mcts>>

CallGetThirdInLine ==
    \E a \in Fields(design), b \in Fields(design) :
        /\ call' = [op |-> "get_third_in_line", args |-> <<a, b>>,
                    ret |-> get_third_in_line(design, a, b)]
        /\ UNCHANGED <<design, board, game, driver, mcts>>

CallIterLinesOf ==
    \E p \in Fields(design) :
        /\ call' = [op |-> "iter_lines_of", args |-> <<p>>,
                    ret |-> Returned(iter_lines_of(design, p))]
        /\ UNCHANGED <<design, board, game, driver, mcts>>

NextTopo ==
    \/ CallIsLinkedTo
    \/ CallNeighborsOf
    \/ CallGetThirdInLine
    \/ CallIterLinesOf

SpecTopo == InitTopo /\ [][NextTopo]_vars

-----------------------------------------------------------------------------
(* Specification SpecBoard: a GameBoard under arbitrary calls of place,    *)
(* move, jump and remove, the failing ones included *)

\* the number of pieces the calls of SpecBoard put on the board at most
MaxBoardPieces == 3

\* the positions the calls of SpecBoard are made with: the line of ring 0
\* that wraps around the ring end, and the line between the rings through
\* its middle position; they hold linked and unlinked pairs
OpPositions(d) ==
    {Position(0, ring_size(d) - 2), Position(0, ring_size(d) - 1),
     Position(0, 0),
     Position(1, ring_size(d) - 1), Position(2, ring_size(d) - 1)}

BoardCall(op, r) ==
    [op |-> op, args |-> <<r.line>>,
     ret |-> [value |-> r.value, raised |-> r.raised]]

InitBoard ==
    /\ design \in Designs
    /\ call = NoCall
    /\ board = NewGameBoard
    /\ game = NewGameState(design.sides)
    /\ driver = NoDriver
    /\ mcts = NoMCTS

Place ==
    \E pos \in OpPositions(design), piece \in PlayerIDs :
        LET r == place(board, pos, piece)
        IN  /\ Len(r.board.fields) <= MaxBoardPieces
            /\ board' = r.board
            /\ call' = BoardCall("place", r)
            /\ UNCHANGED <<design, game, driver, mcts>>

Move ==
    \E start \in OpPositions(design), end \in OpPositions(design) :
        LET r == move(board, design, start, end)
        IN  /\ board' = r.board
            /\ call' = BoardCall("move", r)
            /\ UNCHANGED <<design, game, driver, mcts>>

Jump ==
    \E start \in OpPositions(design), end \in OpPositions(design) :
        LET r == jump(board, start, end)
        IN  /\ board' = r.board
            /\ call' = BoardCall("jump", r)
            /\ UNCHANGED <<design, game, driver, mcts>>

Remove ==
    \E pos \in OpPositions(design) :
        LET r == remove(board, pos)
        IN  /\ board' = r.board
            /\ call' = BoardCall("remove", r)
            /\ UNCHANGED <<design, game, driver, mcts>>

NextBoard ==
    \/ Place
    \/ Move
    \/ Jump
    \/ Remove

SpecBoard == InitBoard /\ [][NextBoard]_vars

-----------------------------------------------------------------------------
(* Specification SpecGame: a GameState played from the fresh state.  The   *)
(* caller plays generated actions only: those of a scenario game while it  *)
(* follows one, and at most MaxFreePlies others after it leaves it.  It    *)
(* also calls execute with actions of the player who is not to move,       *)
(* freezes the state and replaces it by its clone.                         *)

\* the number of plies the caller plays off its scenario game
MaxFreePlies == 1

\* a game through all phases: player 0 fills ring 0 closing three mills
\* while placing, opens and closes a mill by moving, player 1 jumps with three
\* pieces and is left with two
Script_Phases ==
    <<PlaceAction(0, <<0, 0>>, NoAttacks),
      PlaceAction(1, <<2, 0>>, NoAttacks),
      PlaceAction(0, <<0, 1>>, NoAttacks),
      PlaceAction(1, <<2, 2>>, NoAttacks),
      PlaceAction(0, <<0, 2>>, SomeAttacks(<<<<2, 2>>>>)),
      PlaceAction(1, <<2, 4>>, NoAttacks),
      PlaceAction(0, <<0, 3>>, NoAttacks),
      PlaceAction(1, <<2, 2>>, NoAttacks),
      PlaceAction(0, <<0, 4>>, SomeAttacks(<<<<2, 2>>>>)),
      PlaceAction(1, <<1, 0>>, NoAttacks),
      PlaceAction(0, <<0, 5>>, SomeAttacks(<<<<1, 0>>>>)),
      PlaceAction(1, <<1, 2>>, NoAttacks),
      MoveAction(0, <<0, 1>>, <<1, 1>>, NoAttacks),
      JumpAction(1, <<1, 2>>, <<1, 4>>, NoAttacks),
      MoveAction(0, <<1, 1>>, <<0, 1>>, SomeAttacks(<<<<1, 4>>>>))>>

\* player 0 closes two mills at once while all pieces of player 1 stand in a
\* mill; it ends with one legal move for player 0 against two pieces
Script_DoubleMillInside ==
    <<PlaceAction(0, <<0, 1>>, NoAttacks),
      PlaceAction(1, <<1, 1>>, NoAttacks),
      PlaceAction(0, <<0, 2>>, NoAttacks),
      PlaceAction(1, <<2, 0>>, NoAttacks),
      PlaceAction(0, <<0, 0>>, SomeAttacks(<<<<2, 0>>>>)),
      PlaceAction(1, <<2, 3>>, NoAttacks),
      PlaceAction(0, <<0, 4>>, NoAttacks),
      PlaceAction(1, <<1, 2>>, NoAttacks),
      PlaceAction(0, <<0, 3>>, SomeAttacks(<<<<2, 3>>>>)),
      PlaceAction(1, <<1, 0>>, SomeAttacks(<<<<0, 2>>>>)),
      PlaceAction(0, <<0, 2>>, SomeAttacks(<<<<1, 2>>, <<1, 0>>>>)),
      PlaceAction(1, <<0, 5>>, NoAttacks)>>

\* it ends with two mills of player 1 ready through 2:3 while player 0 has a
\* single piece outside its mill
Script_DoubleMillShort ==
    <<PlaceAction(0, <<0, 1>>, NoAttacks),
      PlaceAction(1, <<0, 3>>, NoAttacks),
      PlaceAction(0, <<2, 0>>, NoAttacks),
      PlaceAction(1, <<2, 2>>, NoAttacks),
      PlaceAction(0, <<0, 4>>, NoAttacks),
      PlaceAction(1, <<1, 3>>, NoAttacks),
      PlaceAction(0, <<0, 5>>, NoAttacks),
      PlaceAction(1, <<2, 3>>, SomeAttacks(<<<<0, 4>>>>)),
      PlaceAction(0, <<0, 2>>, NoAttacks),
      PlaceAction(1, <<2, 4>>, SomeAttacks(<<<<2, 0>>>>)),
      PlaceAction(0, <<0, 0>>, SomeAttacks(<<<<2, 3>>>>))>>

\* it ends in the moving phase with three legal moves of player 0, the
\* first of which leaves player 1 without a move
Script_Blocking ==
    <<PlaceAction(0, <<0, 5>>, NoAttacks),
      PlaceAction(1, <<2, 5>>, NoAttacks),
      PlaceAction(0, <<2, 4>>, NoAttacks),
      PlaceAction(1, <<1, 3>>, NoAttacks),
      PlaceAction(0, <<1, 4>>, NoAttacks),
      PlaceAction(1, <<0, 4>>, NoAttacks),
      PlaceAction(0, <<1, 1>>, NoAttacks),
      PlaceAction(1, <<2, 1>>, NoAttacks),
      PlaceAction(0, <<1, 0>>, NoAttacks),
      PlaceAction(1, <<2, 0>>, NoAttacks),
      PlaceAction(0, <<2, 2>>, NoAttacks),
      PlaceAction(1, <<2, 3>>, NoAttacks),
      MoveAction(0, <<0, 5>>, <<1, 5>>, SomeAttacks(<<<<0, 4>>>>)),
      MoveAction(1, <<1, 3>>, <<1, 2>>, NoAttacks)>>

\* it ends in the moving phase with a single legal move of player 0, after
\* which player 1 has three
Script_SingleMove ==
    <<PlaceAction(0, <<0, 3>>, NoAttacks),
      PlaceAction(1, <<0, 5>>, NoAttacks),
      PlaceAction(0, <<2, 2>>, NoAttacks),
      PlaceAction(1, <<1, 3>>, NoAttacks),
      PlaceAction(0, <<0, 2>>, NoAttacks),
      PlaceAction(1, <<1, 5>>, NoAttacks),
      PlaceAction(0, <<0, 1>>, NoAttacks),
      PlaceAction(1, <<1, 1>>, NoAttacks),
      PlaceAction(0, <<0, 4>>, SomeAttacks(<<<<1, 5>>>>)),
      PlaceAction(1, <<1, 0>>, NoAttacks),
      PlaceAction(0, <<0, 0>>, SomeAttacks(<<<<1, 3>>>>)),
      PlaceAction(1, <<1, 2>>, SomeAttacks(<<<<2, 2>>>>))>>

Scenarios ==
    {[sides |-> 4, script |-> <<>>],
     [sides |-> 3, script |-> <<>>],
     [sides |-> 3, script |-> Script_Phases],
     [sides |-> 3, script |-> Script_DoubleMillInside],
     [sides |-> 3, script |-> Script_DoubleMillShort],
     [sides |-> 3, script |-> Script_Blocking],
     [sides |-> 3, script |-> Script_SingleMove]}

\* the generated actions the caller may play next
Playable(g, d, drv) ==
    {a \in Range(calc_available_actions(g, d)) :
        \/ drv.script # <<>> /\ a = Head(drv.script)
        \/ drv.free < MaxFreePlies}

\* the caller after it played a
Played(drv, a) ==
    IF drv.script # <<>> /\ a = Head(drv.script)
    THEN [drv EXCEPT !.script = Tail(drv.script)]
    ELSE [drv EXCEPT !.script = <<>>, !.free = drv.free + 1]

GameCall(op, a, r) ==
    [op |-> op, args |-> <<a, r.line>>,
     ret |-> [value |-> None, raised |-> r.raised]]

InitGame ==
    \E sc \in Scenarios :
        /\ design = NewDesign(sc.sides, FALSE)
        /\ game = NewGameState(sc.sides)
        /\ driver = [NoDriver EXCEPT !.script = sc.script]
        /\ mcts = NoMCTS
        /\ call = NoCall
        /\ board = NewGameBoard

\* game.execute(action) with an action of calc_available_actions()
Execute ==
    \E a \in Playable(game, design, driver) :
        LET r == execute(game, design, a)
        IN  /\ game' = r.state
            /\ call' = GameCall("execute", a, r)
            /\ driver' = IF r.raised = "" THEN Played(driver, a) ELSE driver
            /\ UNCHANGED <<design, board, mcts>>

\* the actions of the player who is not to move that the caller tries:
\* the first one generated for that player
OutOfTurn(g, d) ==
    LET actions == calc_available_actions_of(g, d, other(g.player_turn))
    IN  IF actions = <<>> THEN {} ELSE {Head(actions)}

\* game.execute(action) with an action generated for the other player
ExecuteOutOfTurn ==
    \E a \in OutOfTurn(game, design) :
        LET r == execute(game, design, a)
        IN  /\ game' = r.state
            /\ call' = GameCall("execute", a, r)
            /\ UNCHANGED <<design, board, driver, mcts>>

Freeze ==
    /\ game' = freeze(game)
    /\ call' = [op |-> "freeze", args |-> <<>>, ret |-> Returned(<<>>)]
    /\ UNCHANGED <<design, board, driver, mcts>>

\* game = game.clone()
Clone ==
    /\ game' = state_clone(game)
    /\ call' = [op |-> "clone", args |-> <<>>, ret |-> Returned(<<>>)]
    /\ UNCHANGED <<design, board, driver, mcts>>

NextGame ==
    \/ Execute
    \/ ExecuteOutOfTurn
    \/ Freeze
    \/ Clone

SpecGame == InitGame /\ [][NextGame]_vars

-----------------------------------------------------------------------------
(* Specification SpecPlay: a GameState played from the fresh state by a    *)
(* caller that does nothing but execute generated actions, those of the    *)
(* scenario games and at most MaxFreePlies others.                         *)

NextPlay == Execute

SpecPlay == InitGame /\ [][NextPlay]_vars

-----------------------------------------------------------------------------
(* Specification SpecClone: the caller plays a game, clones the state at   *)
(* some point and goes on with the original and the clone: the same action *)
(* on both, or an action on one of them only, at most MaxFreePlies on the  *)
(* clone only.  game is the original.                                      *)

\* the games the caller of SpecClone follows
CloneScenarios == {sc \in Scenarios : sc.script # <<>>}

\* the generated action the game followed has next, if any: the original
\* is played along its game, only the clone leaves it
Scripted(g, d, drv) ==
    {a \in Range(calc_available_actions(g, d)) :
        drv.script # <<>> /\ a = Head(drv.script)}

\* the caller holding the state g as its original, and no clone
NewTwin(g) ==
    LET a == Allocate(<<>>, g)
    IN  [heap |-> a.heap, original |-> a.object, clone |-> NoObject,
         same |-> FALSE]

InitClone ==
    \E sc \in CloneScenarios :
        /\ design = NewDesign(sc.sides, FALSE)
        /\ game = NewGameState(sc.sides)
        /\ driver = [NoDriver EXCEPT
                        !.script = sc.script,
                        !.twin = NewTwin(NewGameState(sc.sides))]
        /\ mcts = NoMCTS
        /\ call = NoCall
        /\ board = NewGameBoard

\* clone = game.clone()
TakeClone ==
    /\ driver.twin.clone = NoObject
    /\ LET c == clone_object(driver.twin.heap, driver.twin.original)
       IN  driver' = [driver EXCEPT !.twin.heap = c.heap,
                                    !.twin.clone = c.object,
                                    !.twin.same = TRUE]
    /\ call' = [op |-> "clone", args |-> <<>>, ret |-> Returned(<<>>)]
    /\ UNCHANGED <<design, board, game, mcts>>

\* game.execute(action), the clone, if there is one, left alone
ExecuteOriginal ==
    \E a \in Scripted(game, design, driver) :
        \E r \in {execute_object(driver.twin.heap, design,
                                  driver.twin.original, a)} :
            /\ game' = Load(r.heap, r.object)
            /\ call' = GameCall("execute", a, r)
            /\ driver' = [Played(driver, a) EXCEPT
                              !.twin.heap = r.heap,
                              !.twin.original = r.object,
                              !.twin.same = FALSE]
            /\ UNCHANGED <<design, board, mcts>>

\* clone.execute(action) with a legal action of the clone, the original
\* left alone
ExecuteClone ==
    /\ driver.twin.clone # NoObject
    /\ driver.free < MaxFreePlies
    /\ \E a \in Range(calc_available_actions(
                       Load(driver.twin.heap, driver.twin.clone), design)) :
          \E r \in {execute_object(driver.twin.heap, design,
                                    driver.twin.clone, a)} :
              /\ game' = Load(r.heap, driver.twin.original)
              /\ call' = GameCall("clone.execute", a, r)
              /\ driver' = [driver EXCEPT !.free = @ + 1,
                                          !.twin.heap = r.heap,
                                          !.twin.clone = r.object,
                                          !.twin.same = FALSE]
    /\ UNCHANGED <<design, board, mcts>>

\* game.execute(action); clone.execute(action), while both were given the
\* same actions since the clone was taken
ExecuteBoth ==
    /\ driver.twin.clone # NoObject
    /\ driver.twin.same
    /\ \E a \in Scripted(game, design, driver) :
          \E r1 \in {execute_object(driver.twin.heap, design,
                                     driver.twin.original, a)} :
          \E r2 \in {execute_object(r1.heap, design, driver.twin.clone, a)} :
              /\ game' = Load(r2.heap, r1.object)
              /\ call' = GameCall("execute both", a, r2)
              /\ driver' = [Played(driver, a) EXCEPT
                                !.twin.heap = r2.heap,
                                !.twin.original = r1.object,
                                !.twin.clone = r2.object]
    /\ UNCHANGED <<design, board, mcts>>

NextClone ==
    \/ TakeClone
    \/ ExecuteOriginal
    \/ ExecuteClone
    \/ ExecuteBoth

SpecClone == InitClone /\ [][NextClone]_vars

-----------------------------------------------------------------------------
(* Specification SpecMCTS: a scenario game is played to its end, a search  *)
(* is constructed on the state reached, and the caller runs iterations and *)
(* re-roots the search with select_best and select_other.                  *)

\* the number of run_one_iteration calls the caller makes
MaxIterations == 3

\* the number of times the caller re-roots the search
MaxReroots == 1

\* the scenario games a search is constructed after
SearchScripts ==
    {Script_Phases, Script_DoubleMillInside, Script_Blocking,
     Script_SingleMove}

\* the parameters the policies are constructed with, <<branching of
\* SimpleExpansionPolicy, max_depth, branching, branching_depth of
\* SimpleSimulationPolicy>>: the default expansion with playouts that stop
\* at once; one child per expansion with playouts that branch into two
\* continuations of one ply, or follow a single path of two plies
PolicySettings ==
    {<<3, 0, 5, 1>>, <<1, 1, 2, 1>>, <<1, 2, 1, 1>>}

InitSearchGame ==
    \E script \in SearchScripts :
        /\ design = NewDesign(3, FALSE)
        /\ game = NewGameState(3)
        /\ driver = [NoDriver EXCEPT !.script = script, !.free = MaxFreePlies]
        /\ mcts = NoMCTS
        /\ call = NoCall
        /\ board = NewGameBoard

\* mcts = MCTS(game, ...) as init_mcts(game, playerID) builds it; the root
\* node freezes game itself
InitSearch ==
    /\ mcts.node = NoNode
    /\ driver.script = <<>>
    /\ \E playerID \in PlayerIDs, s \in PolicySettings :
          /\ mcts' = MCTS(game, design, [branching |-> s[1]],
                          SimpleSimulationPolicy(playerID, s[2], s[3], s[4]))
          /\ call' = [op |-> "init_mcts", args |-> <<playerID>>,
                      ret |-> Returned(<<>>)]
    /\ game' = freeze(game)
    /\ UNCHANGED <<design, board, driver>>

RunOneIteration ==
    /\ mcts.node # NoNode
    /\ driver.iterations < MaxIterations
    /\ \E r \in run_one_iteration(mcts, design) :
          /\ mcts' = [mcts EXCEPT !.nodes = r.nodes]
          /\ call' = [op |-> "run_one_iteration", args |-> <<>>,
                      ret |-> [value |-> r.value, raised |-> r.raised]]
    /\ driver' = [driver EXCEPT !.iterations = @ + 1]
    /\ UNCHANGED <<design, board, game>>

SelectBest ==
    /\ mcts.node # NoNode
    /\ driver.reroots < MaxReroots
    /\ LET r == select_best(mcts)
       IN  /\ mcts' = r.mcts
           /\ call' = [op |-> "select_best", args |-> <<>>,
                       ret |-> [value |-> r.value, raised |-> r.raised]]
           /\ driver' = IF r.raised = ""
                        THEN [driver EXCEPT !.reroots = @ + 1]
                        ELSE driver
    /\ UNCHANGED <<design, board, game>>

\* the actions the caller passes to select_other: the action of the first
\* child of the root and the first action the root has not expanded
OtherActions(node) ==
    (IF node.children = <<>> THEN {} ELSE {node.children[1][1]})
    \cup (IF node.remaining_actions = <<>> THEN {}
          ELSE {node.remaining_actions[1]})

\* select_other(action, state) with a legal action of the root's state and
\* the state that action leads to
SelectOther ==
    /\ mcts.node # NoNode
    /\ driver.reroots < MaxReroots
    /\ \E action \in OtherActions(mcts.nodes[mcts.node]) :
          LET r == execute(state_clone(mcts.nodes[mcts.node].state),
                           design, action)
          IN  /\ mcts' = select_other(mcts, design, action, r.state)
              /\ call' = [op |-> "select_other", args |-> <<action, r.state>>,
                          ret |-> Returned(<<>>)]
    /\ driver' = [driver EXCEPT !.reroots = @ + 1]
    /\ UNCHANGED <<design, board, game>>

NextMCTS ==
    \/ Execute
    \/ InitSearch
    \/ RunOneIteration
    \/ SelectBest
    \/ SelectOther

SpecMCTS == InitSearchGame /\ [][NextMCTS]_vars

-----------------------------------------------------------------------------
(* Specification SpecTree: as SpecMCTS, with a caller that re-roots the    *)
(* search with select_best only, as the side that is to move does.         *)

NextTree ==
    \/ Execute
    \/ InitSearch
    \/ RunOneIteration
    \/ SelectBest

SpecTree == InitSearchGame /\ [][NextTree]_vars

-----------------------------------------------------------------------------
(* Specification SpecPolicy: the caller builds a search tree as in         *)
(* SpecMCTS, re-rooting it with select_best, and then calls the methods of *)
(* the policies directly: mcts.selection.select_from(node),                *)
(* mcts.simulation.simulate(node), mcts.propagation.backpropagate(node).   *)

\* the number of direct calls of policy methods the caller makes
MaxDirectCalls == 1

\* the nodes the direct calls are made with: the root and the node created
\* last
DirectNodes(m) ==
    IF m.node = NoNode THEN {} ELSE {m.node, Len(m.nodes)}

\* what select_from gives the caller: the node, None, or the exception
SelectFromResult(r) ==
    IF r = LogError THEN Raised("ValueError")
    ELSE IF r = DivError THEN Raised("ZeroDivisionError")
    ELSE Returned(r)

CallSelectFrom ==
    /\ driver.direct < MaxDirectCalls
    /\ \E id \in DirectNodes(mcts) :
          \E r \in select_from(mcts.nodes, id) :
              call' = [op |-> "select_from", args |-> <<id>>,
                       ret |-> SelectFromResult(r)]
    /\ driver' = [driver EXCEPT !.direct = @ + 1]
    /\ UNCHANGED <<design, board, game, mcts>>

CallSimulate ==
    /\ driver.direct < MaxDirectCalls
    /\ \E id \in DirectNodes(mcts) :
          \E s \in simulate(mcts.simulation, design, mcts.nodes[id]) :
              /\ mcts' = [mcts EXCEPT !.nodes[id] = s.node]
              /\ call' = [op |-> "simulate", args |-> <<id>>,
                          ret |-> [value |-> <<>>, raised |-> s.raised]]
    /\ driver' = [driver EXCEPT !.direct = @ + 1]
    /\ UNCHANGED <<design, board, game>>

CallBackpropagate ==
    /\ driver.direct < MaxDirectCalls
    /\ \E id \in DirectNodes(mcts) :
          /\ mcts' = [mcts EXCEPT !.nodes = backpropagate(mcts.nodes, id)]
          /\ call' = [op |-> "backpropagate", args |-> <<id>>,
                      ret |-> Returned(<<>>)]
    /\ driver' = [driver EXCEPT !.direct = @ + 1]
    /\ UNCHANGED <<design, board, game>>

\* the steps that build the tree, taken before the direct calls
BuildTree ==
    /\ driver.direct = 0
    /\ NextTree

NextPolicy ==
    \/ BuildTree
    \/ CallSelectFrom
    \/ CallSimulate
    \/ CallBackpropagate

SpecPolicy == InitSearchGame /\ [][NextPolicy]_vars

-----------------------------------------------------------------------------
(* Specification SpecSimulate: the caller plays a scenario game and lets a *)
(* SimpleSimulationPolicy produce the playouts of the state reached, as    *)
(* simulate(node) does with the clone of node.state.                       *)

\* the policies the playouts are produced by: those of PolicySettings, one
\* that branches on two plies and one that branches into three
SimulationSettings ==
    {SimpleSimulationPolicy(0, s[2], s[3], s[4]) : s \in PolicySettings}
    \cup {SimpleSimulationPolicy(0, 2, 2, 2),
          SimpleSimulationPolicy(0, 3, 3, 1)}

\* the caller follows its scenario game
InitSimulate ==
    \E sc \in Scenarios :
        /\ design = NewDesign(sc.sides, FALSE)
        /\ game = NewGameState(sc.sides)
        /\ driver = [NoDriver EXCEPT !.script = sc.script,
                                     !.free = MaxFreePlies]
        /\ mcts = NoMCTS
        /\ call = NoCall
        /\ board = NewGameBoard

\* state = node.state.clone()
\* results = list(self._iter_simulate(state, list(state.calc_available_actions())))
IterSimulate ==
    /\ \E sim \in SimulationSettings :
          \E p \in iter_simulate(sim, design, state_clone(game),
                       calc_available_actions(state_clone(game), design), 0) :
              call' = [op |-> "_iter_simulate", args |-> <<sim>>,
                       ret |-> [value |-> p.results, raised |-> p.raised]]
    /\ UNCHANGED <<design, board, game, driver, mcts>>

NextSimulate ==
    \/ Execute
    \/ IterSimulate

SpecSimulate == InitSimulate /\ [][NextSimulate]_vars

-----------------------------------------------------------------------------
(* Claims *)

\* the lines of the design that hold both a and b
CommonLines(d, a, b) ==
    {line \in Range(iter_lines(d)) : a \in Range(line) /\ b \in Range(line)}

\* C1: is_linked_to gives the same answer for (a,b) and (b,a), and
\* neighbors_of(p) yields exactly the positions q of the board with
\* is_linked_to(p,q), at most 4 of them, each once.
C1_LinkedSymmetricNeighborsExact ==
    /\ call.op = "is_linked_to" =>
          call.ret.value = is_linked_to(design, call.args[2], call.args[1])
    /\ call.op = "neighbors_of" =>
          /\ Range(call.ret.value) =
                {q \in Fields(design) : is_linked_to(design, call.args[1], q)}
          /\ Len(call.ret.value) <= 4
          /\ Cardinality(Range(call.ret.value)) = Len(call.ret.value)

\* neighbors_of was called at index 0 and gave the last index of the ring
C1_Witness ==
    /\ call.op = "neighbors_of"
    /\ call.args[1][2] = 0
    /\ Position(call.args[1][1], ring_size(design) - 1) \in Range(call.ret.value)
    /\ Len(call.ret.value) = 4

\* C2: for distinct positions a, b on a common line of iter_lines,
\* get_third_in_line(a,b) returns the remaining position of that line and
\* equals get_third_in_line(b,a); for a, b on no common line it raises the
\* invalid-line error.
C2_ThirdInLine ==
    (call.op = "get_third_in_line" /\ call.args[1] # call.args[2]) =>
        LET a == call.args[1]
            b == call.args[2]
        IN  IF CommonLines(design, a, b) # {}
            THEN /\ call.ret.raised = ""
                 /\ \A line \in CommonLines(design, a, b) :
                       Range(line) = {a, b, call.ret.value}
                 /\ call.ret = get_third_in_line(design, b, a)
            ELSE call.ret.raised = "ValueError"

\* get_third_in_line was called with the last index of a ring and index 0
C2_Witness ==
    /\ call.op = "get_third_in_line"
    /\ call.args[1][2] = ring_size(design) - 1
    /\ call.args[2] = Position(call.args[1][1], 0)
    /\ call.ret = Returned(Position(call.args[1][1], ring_size(design) - 2))

\* C3: for every position p the pairs of iter_lines_of(p) are exactly the
\* pairs {q,r} with {p,q,r} a line of iter_lines, each once; and on every
\* board is_inside_a_mill(player,p) holds exactly when p is on a triple of
\* iter_mills(player).
C3_LinesOfAgreeWithLines ==
    LET lines == Range(iter_lines(design))
        millPos(playerID) ==
            UNION {Range(mill) : mill \in Range(iter_mills(board, design, playerID))}
        millPos0 == millPos(0)
        millPos1 == millPos(1)
    IN  \A p \in Fields(design) :
            LET linesOf == iter_lines_of(design, p)
            IN  /\ {Range(pr) : pr \in Range(linesOf)} =
                      {Range(line) \ {p} : line \in {l \in lines : p \in Range(l)}}
                /\ \A pr \in Range(linesOf) : pr[1] # pr[2]
                /\ Cardinality(Range(linesOf)) = Len(linesOf)
                /\ is_inside_a_mill(board, design, 0, p) <=> (p \in millPos0)
                /\ is_inside_a_mill(board, design, 1, p) <=> (p \in millPos1)

\* a mill stands on the line that wraps around the end of ring 0
C3_Witness ==
    /\ is_inside_a_mill(board, design, 0, Position(0, 0))
    /\ is_inside_a_mill(board, design, 0, Position(0, ring_size(design) - 1))
    /\ Len(board.fields) = 3

\* the number of positions of fields that hold a piece of the player
LiveCount(b, playerID) ==
    Cardinality({i \in 1..Len(b.fields) : b.fields[i][2] = playerID})

\* C4: after any sequence of place, move, jump and remove calls, failing
\* ones included, count(p) is the number of positions of fields whose
\* piece is owned by p.
C4_CountMatchesFields ==
    /\ \A playerID \in PlayerIDs :
          board_count(board, playerID) = LiveCount(board, playerID)
    /\ Cardinality({board.fields[i][1] : i \in 1..Len(board.fields)})
          = Len(board.fields)

\* a piece was removed while pieces of both players stand on the board
C4_Witness ==
    /\ call.op = "remove"
    /\ call.ret.value # None
    /\ board_count(board, 0) >= 1
    /\ board_count(board, 1) >= 1

\* C5: execute fails when the state is frozen, and fails when
\* action.playerID is not the side to move; in both cases the board
\* occupancy, the piece counts, the placed-piece counts and the side to move
\* are left unchanged.
C5_ExecuteRejects ==
    [][(/\ call'.op = "execute"
        /\ \/ game.frozen
           \/ call'.args[1].playerID # game.player_turn)
       => /\ call'.ret.raised = "AssertionError"
          /\ game'.board.fields = game.board.fields
          /\ game'.board.count = game.board.count
          /\ game'.placed_items = game.placed_items
          /\ game'.player_turn = game.player_turn]_vars

\* execute was called on a state that is not frozen with an action of the
\* player who is not to move, both players having pieces on the board, and
\* the test of the side to move raised
C5_Witness ==
    /\ call.op = "execute"
    /\ ~game.frozen
    /\ call.args[1].playerID # game.player_turn
    /\ call.args[2] = 444
    /\ board_count(game.board, 0) >= 1
    /\ board_count(game.board, 1) >= 1

\* the positions of the pieces of playerID that stand on a line of the
\* design held entirely by playerID
OnFullLine(b, d, playerID) ==
    {pos \in Fields(d) :
        \E line \in Range(iter_lines(d)) :
            /\ pos \in Range(line)
            /\ \A q \in Range(line) : board_get(b, q) = playerID}

\* the capturable set: the pieces of playerID outside any mill if there are
\* any, otherwise its pieces inside mills
Capturable(b, d, playerID) ==
    LET inside  == OnFullLine(b, d, playerID)
        outside == {pos \in Fields(d) : board_get(b, pos) = playerID} \ inside
    IN  IF outside # {} THEN outside ELSE inside

KSubsets(S, k) == {T \in SUBSET S : Cardinality(T) = k}

\* the places in the sequence actions of the actions generated for the
\* candidate c = <<actiontype, start, destination>>
ActionsOf(actions, c) ==
    {i \in 1..Len(actions) : /\ actions[i].actiontype = c[1]
                             /\ actions[i].start = c[2]
                             /\ actions[i].end = c[3]}

\* C6: for each candidate destination through which k >= 1 mills of the
\* mover are ready, the capture lists of the actions generated for that
\* candidate are exactly the k-element subsets of the capturable set, each
\* subset once (the capturable set: the opponent's pieces outside any mill if
\* there are any, otherwise the opponent's pieces inside mills); hence C(m,k)
\* actions for a capturable set of size m, and none when m < k.
C6_CaptureCombinations ==
    LET p       == game.player_turn
        actions == calc_available_actions(game, design)
        cap     == Capturable(game.board, design, other(p))
    IN  \A c \in Range(candidates(game, design, p)) :
            LET k    == Len(iter_ready_mills(game.board, design, p, c[3]))
                mine == ActionsOf(actions, c)
                subs == KSubsets(cap, k)
            IN  k >= 1 =>
                  /\ \A i \in mine : /\ HasAttacks(actions[i])
                                     /\ Len(AttackList(actions[i])) = k
                  /\ {Range(AttackList(actions[i])) : i \in mine} = subs
                  /\ Cardinality(mine) = Cardinality(subs)
                  /\ Cardinality(cap) < k => mine = {}

\* two mills of the mover are ready through one destination while all three
\* pieces of the opponent stand in a mill: three actions, one per pair
C6_Witness ==
    LET p       == game.player_turn
        actions == calc_available_actions(game, design)
    IN  /\ OnFullLine(game.board, design, other(p)) =
              Capturable(game.board, design, other(p))
        /\ Cardinality(Capturable(game.board, design, other(p))) = 3
        /\ \E c \in Range(candidates(game, design, p)) :
              /\ Len(iter_ready_mills(game.board, design, p, c[3])) = 2
              /\ Cardinality(ActionsOf(actions, c)) = 3

\* the candidates of the phase the player is in, from the board alone
PhaseCandidates(g, d, playerID) ==
    LET owned == {pos \in Fields(d) : board_get(g.board, pos) = playerID}
        empty == {pos \in Fields(d) : board_get(g.board, pos) = None}
    IN  IF g.placed_items[playerID + 1] < g.max_placed_items
        THEN {<<"PLACE", NoStart, q>> : q \in empty}
        ELSE IF Cardinality(owned) > 3
        THEN {<<"MOVE", sq[1], sq[2]>> :
                  sq \in {x \in owned \X empty : is_linked_to(d, x[1], x[2])}}
        ELSE IF Cardinality(owned) = 3
        THEN {<<"JUMP", s, q>> : s \in owned, q \in empty}
        ELSE {}

\* C7: calc_available_actions for the side to move is governed by exactly
\* one phase: while placed[player] < max_placed_items only Place actions, one
\* candidate per empty position (24 capture-free actions on the empty 4-sided
\* board); otherwise with more than 3 pieces only Move actions, one candidate
\* per (owned piece, adjacent empty position); otherwise with exactly 3
\* pieces only Jump actions, one candidate per (owned piece, any empty
\* position); otherwise nothing.
C7_OnePhase ==
    LET p        == game.player_turn
        actions  == calc_available_actions(game, design)
        cands    == candidates(game, design, p)
        expected == PhaseCandidates(game, design, p)
    IN  /\ Range(cands) = expected
        /\ Len(cands) = Cardinality(expected)
        /\ \A i \in 1..Len(actions) :
              /\ actions[i].playerID = p
              /\ <<actions[i].actiontype, actions[i].start, actions[i].end>>
                    \in expected
        /\ \A c \in expected :
              iter_ready_mills(game.board, design, p, c[3]) = <<>> =>
                  /\ Cardinality(ActionsOf(actions, c)) = 1
                  /\ \A i \in ActionsOf(actions, c) : ~HasAttacks(actions[i])
        /\ (design.sides = 4 /\ game.board.fields = <<>>
                /\ game.placed_items = <<0, 0>>) =>
              /\ Len(actions) = 24
              /\ \A i \in 1..Len(actions) :
                    /\ actions[i].actiontype = "PLACE"
                    /\ ~HasAttacks(actions[i])

\* the side to move has placed all its pieces and is left with three: it
\* jumps, to every empty position with every piece
C7_Witness ==
    LET p       == game.player_turn
        actions == calc_available_actions(game, design)
    IN  /\ game.placed_items[p + 1] = game.max_placed_items
        /\ board_count(game.board, p) = 3
        /\ Len(actions) >= 3 * (Cardinality(Fields(design)) - Len(game.board.fields))
        /\ \A i \in 1..Len(actions) : actions[i].actiontype = "JUMP"
        /\ call.op = "execute"

\* the nodes of the tree rooted at id: id and what its children lead to
RECURSIVE Subtree(_, _)
Subtree(nodes, id) ==
    {id} \cup UNION {Subtree(nodes, nodes[id].children[i][2]) :
                        i \in 1..Len(nodes[id].children)}

\* no node of the tree rooted at the current root has a remaining action
SearchExhausted(m) ==
    \A id \in Subtree(m.nodes, m.node) : m.nodes[id].remaining_actions = <<>>

\* C8: run_one_iteration returns False only when the search is exhausted,
\* i.e. no node of the tree rooted at the current root has any remaining
\* legal action; whenever some node of the current tree still has a
\* remaining action, run_one_iteration returns True and adds at least one
\* node.
C8_FalseOnlyWhenExhausted ==
    [][call'.op = "run_one_iteration" =>
          /\ call'.ret.value = FALSE => SearchExhausted(mcts)
          /\ ~SearchExhausted(mcts) =>
                /\ call'.ret.value = TRUE
                /\ Len(mcts'.nodes) > Len(mcts.nodes)]_vars

\* C9: after N >= 1 calls of run_one_iteration on a search whose root state
\* has exactly one legal action, the root has exactly one child and that
\* child's simulations counter equals N.
C9_SingleActionChildCountsCalls ==
    (/\ mcts.node # NoNode
     /\ driver.reroots = 0
     /\ driver.iterations >= 1
     /\ Len(calc_available_actions(mcts.nodes[mcts.node].state, design)) = 1)
    => LET root == mcts.nodes[mcts.node]
       IN  /\ Len(root.children) = 1
           /\ mcts.nodes[root.children[1][2]].simulations = driver.iterations

\* reward_total / simulations of node a is at most that of node b
MeanAtMost(a, b) ==
    a.reward_total[1] * b.reward_total[2] * b.simulations
        <= b.reward_total[1] * a.reward_total[2] * a.simulations

\* C10: select_best on a root with at least one child returns the pair
\* (action, child) where child is the root's direct child with the maximal
\* reward_total/simulations and, among children of equal maximal value, the
\* one registered first; afterwards that child is the search root and its
\* parent reference is null.
C10_SelectBestFirstMaximal ==
    [][(/\ call'.op = "select_best"
        /\ mcts.node # NoNode
        /\ mcts.nodes[mcts.node].children # <<>>)
       => LET children == mcts.nodes[mcts.node].children
              kid(i)   == mcts.nodes[children[i][2]]
          IN  \E i \in 1..Len(children) :
                 /\ call'.ret.raised = ""
                 /\ call'.ret.value = <<children[i][1], children[i][2]>>
                 /\ \A j \in 1..Len(children) : MeanAtMost(kid(j), kid(i))
                 /\ \A j \in 1..(i - 1) : ~MeanAtMost(kid(i), kid(j))
                 /\ mcts'.node = children[i][2]
                 /\ mcts'.nodes[children[i][2]].parent = NoNode]_vars

\* select_best has made a child the root that was not the first one
\* registered and shares the maximal value with a child registered after it
C10_Witness ==
    /\ call.op = "select_best"
    /\ call.ret.raised = ""
    /\ mcts.nodes[mcts.node].parent = NoNode
    /\ \E old \in 1..Len(mcts.nodes) :
          LET children == mcts.nodes[old].children
              kid(i)   == mcts.nodes[children[i][2]]
          IN  \E i \in 2..Len(children) :
                 /\ children[i][2] = mcts.node
                 /\ call.ret.value = <<children[i][1], mcts.node>>
                 /\ \E j \in (i + 1)..Len(children) :
                       /\ MeanAtMost(kid(i), kid(j))
                       /\ MeanAtMost(kid(j), kid(i))

\* board occupancy, piece counts, placed-piece counts and side to move of
\* two states are the same
SamePosition(g1, g2) ==
    /\ g1.board.fields = g2.board.fields
    /\ g1.board.count = g2.board.count
    /\ g1.placed_items = g2.placed_items
    /\ g1.player_turn = g2.player_turn

\* C11: select_other(action, state): if the current root has a child
\* registered under an action equal to action, that child becomes the root
\* with visited, simulations, reward_total, children and remaining actions
\* unchanged and its parent reference null, and its state is the result of
\* applying action to the old root's state; otherwise the root becomes a
\* fresh node on state with zero statistics, no children and all legal
\* actions of state remaining.  No other node changes.
C11_SelectOtherReusesOrRestarts ==
    [][call'.op = "select_other" =>
          LET action   == call'.args[1]
              state    == call'.args[2]
              root     == mcts.nodes[mcts.node]
              matching == {i \in 1..Len(root.children) :
                              root.children[i][1] = action}
              new      == mcts'.nodes[mcts'.node]
          IN  /\ new.parent = NoNode
              /\ \A id \in 1..Len(mcts.nodes) :
                    id # mcts'.node => mcts'.nodes[id] = mcts.nodes[id]
              /\ IF matching # {}
                 THEN \E i \in matching :
                         /\ mcts'.node = root.children[i][2]
                         /\ Len(mcts'.nodes) = Len(mcts.nodes)
                         /\ new = [mcts.nodes[mcts'.node] EXCEPT
                                       !.parent = NoNode]
                         /\ LET r == execute(state_clone(root.state), design,
                                             action)
                            IN  r.raised = "" /\ SamePosition(new.state, r.state)
                 ELSE /\ mcts'.node = Len(mcts.nodes) + 1
                      /\ Len(mcts'.nodes) = Len(mcts.nodes) + 1
                      /\ SamePosition(new.state, state)
                      /\ new.visited = 0
                      /\ new.simulations = 0
                      /\ new.reward_total = Frac(0, 1)
                      /\ new.children = <<>>
                      /\ new.remaining_actions =
                            calc_available_actions(state, design)]_vars

\* select_other has made a child of the former root the root, one that has
\* children and simulations of its own and whose parent reference was the
\* former root
C11_Witness ==
    /\ call.op = "select_other"
    /\ mcts.nodes[mcts.node].parent = NoNode
    /\ mcts.nodes[mcts.node].children # <<>>
    /\ mcts.nodes[mcts.node].simulations > 1
    /\ \E old \in 1..Len(mcts.nodes) :
          /\ old # mcts.node
          /\ DictHas(mcts.nodes[old].children, call.args[1])
          /\ DictGet(mcts.nodes[old].children, call.args[1]) = mcts.node

\* select_other was given an action the root had not expanded and started
\* a new tree beside the old one
C11_FreshReached ==
    /\ call.op = "select_other"
    /\ mcts.node = Len(mcts.nodes)
    /\ Len(mcts.nodes) > 2
    /\ mcts.nodes[mcts.node].remaining_actions # <<>>

\* C12: cloning a GameState and then applying the same sequence of legal
\* actions to the original and to the clone yields equal board occupancy,
\* equal piece counts, equal placed-piece counts and the same side to move
\* after every step; applying actions to only one of the two never changes
\* the other.
C12_CloneRoundTrip ==
    /\ [](driver.twin.same =>
            SamePosition(Load(driver.twin.heap, driver.twin.original),
                         Load(driver.twin.heap, driver.twin.clone)))
    /\ [][/\ (call'.op = "execute" /\ driver.twin.clone # NoObject) =>
               Load(driver'.twin.heap, driver'.twin.clone) =
                   Load(driver.twin.heap, driver.twin.clone)
          /\ call'.op = "clone.execute" =>
               Load(driver'.twin.heap, driver'.twin.original) =
                   Load(driver.twin.heap, driver.twin.original)]_vars

\* an action with a capture has just been executed on the original and on
\* the clone, which was taken while pieces stood on the board
C12_Witness ==
    /\ call.op = "execute both"
    /\ call.ret.raised = ""
    /\ HasAttacks(call.args[1])
    /\ driver.twin.same
    /\ Load(driver.twin.heap, driver.twin.clone).board.fields # <<>>
    /\ Load(driver.twin.heap, driver.twin.clone).board.count =
          game.board.count

\* an action was executed on the clone only, and the clone has moved on
\* from the original
C12_CloneOnlyReached ==
    /\ call.op = "clone.execute"
    /\ call.ret.raised = ""
    /\ Load(driver.twin.heap, driver.twin.clone).player_turn # game.player_turn

\* some piece stands on pos
Occupied(b, pos) == \E i \in 1..Len(b.fields) : b.fields[i][1] = pos

\* C13: place onto an occupied position, move or jump onto an occupied
\* position, and move between two positions that are not linked in the
\* topology each fail, and the failing call leaves the occupancy map and
\* both piece counts unchanged: on every board reached, for every call
\* that can be made on it.
C13_BoardCallsReject ==
    LET Rejected(r) == /\ r.raised = "AssertionError"
                       /\ r.board.fields = board.fields
                       /\ r.board.count = board.count
    IN  /\ \A pos \in OpPositions(design), piece \in PlayerIDs :
              Occupied(board, pos) => Rejected(place(board, pos, piece))
        /\ \A start \in OpPositions(design), end \in OpPositions(design) :
              /\ Occupied(board, end) =>
                    /\ Rejected(move(board, design, start, end))
                    /\ Rejected(jump(board, start, end))
              /\ end \notin Range(neighbors_of(design, start)) =>
                    Rejected(move(board, design, start, end))

\* move has just failed at its test of the link (line 257) on a board with
\* pieces of both players, on which a piece stands on a position with an
\* empty position not linked to it
C13_Witness ==
    /\ call.op = "move"
    /\ call.ret.raised = "AssertionError"
    /\ call.args[1] = 257
    /\ board_count(board, 0) >= 1
    /\ board_count(board, 1) >= 1
    /\ \E start \in OpPositions(design), end \in OpPositions(design) :
          /\ Occupied(board, start)
          /\ ~Occupied(board, end)
          /\ start # end
          /\ end \notin Range(neighbors_of(design, start))

\* the lines of the design through the destination of action that the
\* mover holds entirely once the piece stands on the destination and, for
\* Move and Jump, has left its start
MillsCompleted(g, d, action) ==
    LET after(q) == IF q = action.end THEN action.playerID
                    ELSE IF q = action.start THEN None
                    ELSE board_get(g.board, q)
    IN  {line \in Range(iter_lines(d)) :
            /\ action.end \in Range(line)
            /\ \A q \in Range(line) : after(q) = action.playerID}

\* C14: every action produced by calc_available_actions carries captures
\* only for mills it really completes: the number of captured positions
\* equals the number of mill lines through the destination whose three
\* positions are all occupied by the mover once the piece stands on the
\* destination and, for Move and Jump, the start position has been vacated;
\* an action that completes zero mills carries no captures.
C14_CapturesOnlyForCompletedMills ==
    LET actions == calc_available_actions(game, design)
    IN  \A i \in 1..Len(actions) :
            /\ Len(AttackList(actions[i])) =
                  Cardinality(MillsCompleted(game, design, actions[i]))
            /\ MillsCompleted(game, design, actions[i]) = {} =>
                  ~HasAttacks(actions[i])

\* C15: after select_best or select_other has installed a new root, no
\* later run_one_iteration changes visited, simulations, reward_total,
\* children or remaining actions of any node outside the new root's subtree:
\* the former root, its other children and their descendants stay exactly as
\* they were.
C15_StaleNodesUntouched ==
    [][(call'.op = "run_one_iteration" /\ driver.reroots >= 1) =>
          \A id \in 1..Len(mcts.nodes) :
              id \notin Subtree(mcts.nodes, mcts.node) =>
                  mcts'.nodes[id] = mcts.nodes[id]]_vars

\* an iteration has run and added nodes below a root that select_best or
\* select_other took from the children of a former root, which has
\* simulations and another child
C15_Witness ==
    /\ call.op = "run_one_iteration"
    /\ call.ret.value = TRUE
    /\ driver.reroots >= 1
    /\ mcts.nodes[mcts.node].parent = NoNode
    /\ mcts.nodes[mcts.node].visited >= 1
    /\ \E old \in 1..Len(mcts.nodes) :
          /\ old \notin Subtree(mcts.nodes, mcts.node)
          /\ mcts.nodes[old].simulations >= 1
          /\ Len(mcts.nodes[old].children) >= 2
          /\ \E i \in 1..Len(mcts.nodes[old].children) :
                mcts.nodes[old].children[i][2] = mcts.node

\* C16: backpropagate(n) walks the parent chain of n up to and including
\* the first node whose parent reference is null: each ancestor a on that
\* chain has a.visited increased by exactly 1 and a.simulations and
\* a.reward_total increased by the simulations and reward_total of a's child
\* on the chain (as that child stands after its own increase); the
\* statistics of n itself and of every node not on the chain are unchanged.
C16_BackpropagateChain ==
    [][call'.op = "backpropagate" =>
          LET n     == call'.args[1]
              chain == ParentChain(mcts.nodes, n)
          IN  /\ Len(mcts'.nodes) = Len(mcts.nodes)
              /\ \A id \in 1..Len(mcts.nodes) :
                    IF id \in chain
                    THEN \E c \in chain \cup {n} :
                            /\ mcts.nodes[c].parent = id
                            /\ mcts'.nodes[id] =
                                  [mcts.nodes[id] EXCEPT
                                     !.visited = @ + 1,
                                     !.simulations =
                                         @ + mcts'.nodes[c].simulations,
                                     !.reward_total =
                                         FracAdd(@, mcts'.nodes[c].reward_total)]
                    ELSE mcts'.nodes[id] = mcts.nodes[id]]_vars

\* backpropagate was called with a node that has simulations and two
\* nodes above it, in a tree with nodes beside the chain
C16_Witness ==
    /\ call.op = "backpropagate"
    /\ LET n == call.args[1]
       IN  /\ mcts.nodes[n].simulations >= 1
           /\ Cardinality(ParentChain(mcts.nodes, n)) >= 2
           /\ Len(mcts.nodes) > Cardinality(ParentChain(mcts.nodes, n)) + 1
           /\ \A id \in ParentChain(mcts.nodes, n) :
                 mcts.nodes[id].visited >= 2

\* C17: select_from(node) returns node itself whenever node still has
\* remaining actions (whether or not it already has children); when node has
\* no remaining actions and has children it returns the result of
\* select_from on one of its children; when node has neither remaining
\* actions nor children it returns no selection.  Hence every returned node
\* lies in the subtree of the argument and has at least one remaining
\* action.
C17_SelectFromCases ==
    [][call'.op = "select_from" =>
          LET id   == call'.args[1]
              node == mcts.nodes[id]
              ret  == call'.ret
          IN  /\ node.remaining_actions # <<>> => ret = Returned(id)
              /\ (node.remaining_actions = <<>> /\ node.children # <<>>) =>
                    \E i \in 1..Len(node.children) :
                       \E r \in select_from(mcts.nodes, node.children[i][2]) :
                          /\ r \notin {LogError, DivError}
                          /\ ret = Returned(r)
              /\ (node.remaining_actions = <<>> /\ node.children = <<>>) =>
                    ret = Returned(NoNode)
              /\ ret.raised = ""
              /\ ret.value # NoNode =>
                    /\ ret.value \in Subtree(mcts.nodes, id)
                    /\ mcts.nodes[ret.value].remaining_actions # <<>>]_vars

\* select_from was called with a node without remaining actions and
\* returned a node below it
C17_Witness ==
    /\ call.op = "select_from"
    /\ call.ret.raised = ""
    /\ mcts.nodes[call.args[1]].remaining_actions = <<>>
    /\ call.ret.value \notin {NoNode, call.args[1]}
    /\ call.ret.value \in Subtree(mcts.nodes, call.args[1])

\* select_from was called with a node that has children and remaining
\* actions and returned it
C17_PartlyExpandedReached ==
    /\ call.op = "select_from"
    /\ mcts.nodes[call.args[1]].remaining_actions # <<>>
    /\ mcts.nodes[call.args[1]].children # <<>>
    /\ call.ret = Returned(call.args[1])

\* C20: simulate(node) increases node.simulations by exactly 1, whatever
\* the number of playouts it ran, and changes node.reward_total only; it
\* changes no statistic of any ancestor or other node, and leaves
\* node.children, node.remaining_actions and node.state unchanged.
C20_SimulateTouchesOneNode ==
    [][call'.op = "simulate" =>
          LET id == call'.args[1]
          IN  /\ call'.ret.raised = ""
              /\ Len(mcts'.nodes) = Len(mcts.nodes)
              /\ mcts'.nodes[id].simulations = mcts.nodes[id].simulations + 1
              /\ mcts'.nodes[id] =
                    [mcts.nodes[id] EXCEPT
                        !.simulations = @ + 1,
                        !.reward_total = mcts'.nodes[id].reward_total]
              /\ \A other_id \in 1..Len(mcts.nodes) :
                    other_id # id =>
                        mcts'.nodes[other_id] = mcts.nodes[other_id]]_vars

\* simulate was called with a node below the root whose state has several
\* legal actions, under a policy that branches into several playouts, and
\* changed its reward_total
C20_Witness ==
    /\ call.op = "simulate"
    /\ call.ret.raised = ""
    /\ LET node == mcts.nodes[call.args[1]]
       IN  /\ node.parent # NoNode
           /\ node.simulations = 2
           /\ mcts.simulation.branching > 1
           /\ mcts.simulation.branching_depth >= 1
           /\ mcts.simulation.max_depth >= 1
           /\ Len(calc_available_actions(node.state, design)) >= 2
           /\ node.reward_total # mcts.nodes[node.parent].reward_total
           /\ mcts.nodes[node.parent].simulations = 1

\* the keys of the dict children
Keys(children) == {children[i][1] : i \in 1..Len(children)}

\* C18: at every iteration boundary and for every tree node, the keys of
\* children and the list remaining_actions are disjoint and together are
\* exactly the legal actions of the node's state; each expand of a node with
\* r remaining actions moves exactly min(branching, r) distinct actions from
\* remaining_actions to children, and the child registered under action a
\* has parent = node and a state equal to the node's state with a applied.
C18_ChildrenAndRemainingPartition ==
    /\ [](mcts.node # NoNode =>
            \A id \in Subtree(mcts.nodes, mcts.node) :
                LET node  == mcts.nodes[id]
                    legal == calc_available_actions(node.state, design)
                IN  /\ Keys(node.children) \cap Range(node.remaining_actions) = {}
                    /\ Keys(node.children) \cup Range(node.remaining_actions)
                          = Range(legal)
                    /\ Len(node.children) + Len(node.remaining_actions)
                          = Len(legal)
                    /\ \A i \in 1..Len(node.children) :
                          LET a  == node.children[i][1]
                              c  == mcts.nodes[node.children[i][2]]
                              r  == execute(state_clone(node.state), design, a)
                          IN  /\ c.parent = id
                              /\ r.raised = ""
                              /\ SamePosition(c.state, r.state))
    /\ [][(call'.op = "run_one_iteration" /\ call'.ret.value = TRUE) =>
            \E id \in Subtree(mcts.nodes, mcts.node) :
                LET before == mcts.nodes[id]
                    after  == mcts'.nodes[id]
                    r      == Len(before.remaining_actions)
                    k      == Min(mcts.expansion.branching, r)
                    moved  == Range(before.remaining_actions)
                                \ Range(after.remaining_actions)
                IN  /\ r >= 1
                    /\ Len(after.remaining_actions) = r - k
                    /\ Range(after.remaining_actions)
                          \subseteq Range(before.remaining_actions)
                    /\ Cardinality(moved) = k
                    /\ Keys(after.children) = Keys(before.children) \cup moved
                    /\ Len(after.children) = Len(before.children) + k
                    /\ Len(mcts'.nodes) = Len(mcts.nodes) + k
                    /\ \A o \in 1..Len(mcts.nodes) :
                          o # id =>
                            /\ mcts'.nodes[o].children = mcts.nodes[o].children
                            /\ mcts'.nodes[o].remaining_actions
                                  = mcts.nodes[o].remaining_actions]_vars

\* an iteration has expanded a node below the root that had more remaining
\* actions than the expansion takes at once: it has children and remaining
\* actions
C18_Witness ==
    /\ call.op = "run_one_iteration"
    /\ call.ret.value = TRUE
    /\ \E id \in Subtree(mcts.nodes, mcts.node) :
          /\ id # mcts.node
          /\ mcts.nodes[id].remaining_actions # <<>>
          /\ Len(mcts.nodes[id].children) = mcts.expansion.branching
          /\ \A i \in 1..Len(mcts.nodes[id].children) :
                mcts.nodes[id].children[i][2] > Len(mcts.nodes)
                                                  - mcts.expansion.branching

\* C19: every GameState owned by a tree node is frozen from the node's
\* construction on, and no search operation (run_one_iteration with expand,
\* simulate, backpropagate; select_best; select_other) ever changes the
\* board occupancy, piece counts, placed-piece counts or side to move of a
\* state owned by a node; expansion and simulation act on clones only, so
\* that no execute of theirs is rejected by a frozen state.  The state the
\* search was constructed on is the root's and is covered as well.
C19_NodeStatesFrozen ==
    /\ [](mcts.node # NoNode =>
            /\ game.frozen
            /\ \A id \in 1..Len(mcts.nodes) : mcts.nodes[id].state.frozen)
    /\ [][call'.op \in {"run_one_iteration", "select_best", "select_other"} =>
            /\ game' = game
            /\ \A id \in 1..Len(mcts.nodes) :
                  mcts'.nodes[id].state = mcts.nodes[id].state
            /\ call'.op = "run_one_iteration" => call'.ret.raised = ""]_vars

\* an iteration with playouts of at least one ply has added nodes to a tree
\* of several nodes, on a game with pieces of both players
C19_Witness ==
    /\ call.op = "run_one_iteration"
    /\ call.ret.value = TRUE
    /\ mcts.simulation.max_depth >= 1
    /\ Len(mcts.nodes) >= 3
    /\ driver.iterations >= 2
    /\ game.frozen
    /\ \A id \in 1..Len(mcts.nodes) :
          /\ mcts.nodes[id].state.frozen
          /\ mcts.nodes[id].state.board.fields # <<>>


\* the states that n plies of generated actions lead to from g
RECURSIVE ReachedIn(_, _, _)
ReachedIn(d, g, n) ==
    IF n = 0 THEN {g}
    ELSE UNION {LET r == execute(g, d, a)
                IN  IF r.raised # "" THEN {}
                    ELSE ReachedIn(d, r.state, n - 1)
                : a \in Range(calc_available_actions(g, d))}

\* C21: (policies with max_depth >= 0 and branching >= 1) the playouts of a
\* simulate call end and there is at least one; a
\* playout result has steps <= max_depth, winner None exactly when the
\* steps reached max_depth, and otherwise the playout ended after steps
\* plies in a state whose side to move has no legal action, with the other
\* side as winner; there are at most branching^branching_depth playouts.
C21_PlayoutsBounded ==
    call.op = "_iter_simulate"
    => LET sim     == call.args[1]
           results == call.ret.value
       IN  /\ call.ret.raised = ""
           /\ Len(results) >= 1
           /\ Len(results) <= sim.branching ^ sim.branching_depth
           /\ \A k \in 1..Len(results) :
                 /\ results[k].steps <= sim.max_depth
                 /\ results[k].winner = None
                       <=> results[k].steps = sim.max_depth
                 /\ results[k].winner # None =>
                       \E end \in ReachedIn(design, state_clone(game),
                                            results[k].steps) :
                          /\ calc_available_actions(end, design) = <<>>
                          /\ results[k].winner = other(end.player_turn)
                          /\ results[k].pieces_left = count_total(end.board)

\* a simulate call has given several playouts, one of them ended before
\* max_depth by a side without a legal action, another at max_depth
C21_Witness ==
    /\ call.op = "_iter_simulate"
    /\ call.ret.raised = ""
    /\ Len(call.ret.value) >= 3
    /\ \E k \in 1..Len(call.ret.value) :
          /\ call.ret.value[k].winner # None
          /\ call.ret.value[k].steps >= 1
          /\ call.ret.value[k].steps < call.args[1].max_depth
    /\ \E k \in 1..Len(call.ret.value) :
          /\ call.ret.value[k].winner = None
          /\ call.ret.value[k].steps = call.args[1].max_depth

\* a simulate call has given as many playouts as branching^branching_depth
\* allows, more than branching
C21_FullBranchingReached ==
    /\ call.op = "_iter_simulate"
    /\ Len(call.ret.value) = call.args[1].branching ^ call.args[1].branching_depth
    /\ Len(call.ret.value) > call.args[1].branching


\* C22: in every state reached from a fresh game by generated actions,
\* every action calc_available_actions yields for the side to move executes
\* on an unfrozen clone without an exception: its destination is empty, the
\* start and end of a Move are linked, the piece at the start of a Move or
\* Jump is the mover's, every captured position holds a piece of the
\* opponent; afterwards the other player is to move.
C22_GeneratedActionsExecute ==
    LET actions == calc_available_actions(game, design)
    IN  \A i \in 1..Len(actions) :
           LET a == actions[i]
               r == execute(state_clone(game), design, a)
           IN  /\ a.playerID = game.player_turn
               /\ is_empty(game.board, a.end)
               /\ a.actiontype = "MOVE" => is_linked_to(design, a.start, a.end)
               /\ a.actiontype \in {"MOVE", "JUMP"}
                     => board_get(game.board, a.start) = a.playerID
               /\ \A pos \in Range(AttackList(a)) :
                     board_get(game.board, pos) = other(a.playerID)
               /\ r.raised = ""
               /\ r.state.player_turn = other(game.player_turn)

\* a state reached by executing a generated action in which the side to
\* move has a Move or Jump with a capture among its generated actions, and
\* that action executes on the clone
C22_Witness ==
    /\ call.op = "execute"
    /\ call.ret.raised = ""
    /\ \E a \in Range(calc_available_actions(game, design)) :
          /\ a.actiontype \in {"MOVE", "JUMP"}
          /\ HasAttacks(a)
          /\ execute(state_clone(game), design, a).raised = ""


\* id is registered as a child of some node: expand created it and
\* run_one_iteration simulated it
IsChild(nodes, id) ==
    \E k \in 1..Len(nodes) :
        \E i \in 1..Len(nodes[k].children) : nodes[k].children[i][2] = id

\* the sum of the simulations of the children of a node from the i-th on
RECURSIVE ChildrenSimulations(_, _, _)
ChildrenSimulations(nodes, id, i) ==
    IF i > Len(nodes[id].children) THEN 0
    ELSE nodes[nodes[id].children[i][2]].simulations
         + ChildrenSimulations(nodes, id, i + 1)

\* C23: between iterations the simulations counter of every node is the
\* number of simulate calls made on the nodes of its subtree: one for the
\* node itself when it was simulated (every node but a root that was
\* constructed as a root) plus the simulations of its children.
C23_SimulationsCountSubtreeCalls ==
    \A id \in 1..Len(mcts.nodes) :
        mcts.nodes[id].simulations =
            (IF IsChild(mcts.nodes, id) THEN 1 ELSE 0)
            + ChildrenSimulations(mcts.nodes, id, 1)


\* C24: between iterations, and after select_best or select_other made
\* another node the root, the visited counter of every node of the tree
\* under the root is the number of its proper descendants.
C24_VisitedCountsDescendants ==
    mcts.node # NoNode
    => \A id \in Subtree(mcts.nodes, mcts.node) :
          mcts.nodes[id].visited
              = Cardinality(Subtree(mcts.nodes, id)) - 1

\* an iteration after a child became the root has given the tree under
\* the new root a second level
C24_Witness ==
    /\ mcts.node # NoNode
    /\ driver.reroots >= 1
    /\ call.op = "run_one_iteration"
    /\ IsChild(mcts.nodes, mcts.node)
    /\ mcts.nodes[mcts.node].visited >= 2
    /\ \E id \in Subtree(mcts.nodes, mcts.node) :
          /\ id # mcts.node
          /\ mcts.nodes[id].visited >= 1

\* select_best or select_other has just made a child with descendants the
\* root
C24_RerootedReached ==
    /\ call.op \in {"select_best", "select_other"}
    /\ call.ret.raised = ""
    /\ IsChild(mcts.nodes, mcts.node)
    /\ mcts.nodes[mcts.node].visited >= 1


\* C25: after any sequence of run_one_iteration, select_best and
\* select_other, every node that is a child of some node and every node
\* that has a child has simulations >= 1, so that neither the divisions by
\* child.simulations in UCB1 and calc_action_rewards nor math.log of
\* node.simulations in select_from fail.
C25_StatisticsDefined ==
    /\ \A id \in 1..Len(mcts.nodes) :
          (IsChild(mcts.nodes, id) \/ mcts.nodes[id].children # <<>>)
          => mcts.nodes[id].simulations >= 1
    /\ call.op \in {"run_one_iteration", "select_best"}
          => call.ret.raised \notin {"ValueError", "ZeroDivisionError"}

\* an iteration has gone down from a root without remaining actions through
\* UCB1 and added a node below one of the children
C25_Witness ==
    /\ mcts.node # NoNode
    /\ call.op = "run_one_iteration"
    /\ call.ret.value = TRUE
    /\ mcts.nodes[mcts.node].remaining_actions = <<>>
    /\ Len(mcts.nodes[mcts.node].children) >= 2
    /\ \E i \in 1..Len(mcts.nodes[mcts.node].children) :
          mcts.nodes[mcts.nodes[mcts.node].children[i][2]].children # <<>>

\* a root that select_other constructed has got children by an iteration
C25_FreshRootReached ==
    /\ mcts.node # NoNode
    /\ mcts.node # 1
    /\ ~IsChild(mcts.nodes, mcts.node)
    /\ mcts.nodes[mcts.node].children # <<>>


\* the policies of both players whose playouts end in the state itself or
\* one ply later
ShortPlayouts ==
    {SimpleSimulationPolicy(playerID, max_depth, 2, 1) :
        playerID \in PlayerIDs, max_depth \in {0, 1}}

\* C26: in every state reached by executing at least one generated action
\* the player who moved last has at least one piece on the board, the total
\* number of pieces is positive, and simulate, dividing by the pieces of
\* both players left in a playout result, does not divide by zero.
C26_MoverHasPieces ==
    game.placed_items[1] + game.placed_items[2] >= 1
    => /\ board_count(game.board, other(game.player_turn)) >= 1
       /\ LiveCount(game.board, other(game.player_turn)) >= 1
       /\ board_count(game.board, 0) + board_count(game.board, 1) > 0
       /\ \A sim \in ShortPlayouts :
             \A s \in simulate(sim, design,
                                MCTS_Node(state_clone(game), design, NoNode)) :
                 s.raised = ""

\* a capture has just left the player who is to move with two pieces
C26_Witness ==
    /\ call.op = "execute"
    /\ call.ret.raised = ""
    /\ HasAttacks(call.args[1])
    /\ board_count(game.board, game.player_turn) = 2
    /\ board_count(game.board, other(game.player_turn)) >= 1

\* the first action of a game has just been executed: one piece on the
\* board
C26_FirstActionReached ==
    /\ call.op = "execute"
    /\ call.ret.raised = ""
    /\ game.placed_items = <<1, 0>>
    /\ count_total(game.board) = <<1, 0>>


\* C27: once run_one_iteration has returned False, the next call on the
\* same search returns False again, and any call made on the search as the
\* False call left it returns False and leaves the nodes, their children,
\* remaining actions and statistics as they are; so it stays that way
\* until select_best or select_other makes another node the root.
C27_FalseStaysFalse ==
    [][/\ (/\ call.op = "run_one_iteration"
            /\ call.ret.raised = ""
            /\ call.ret.value = FALSE
            /\ call'.op = "run_one_iteration")
           => /\ call'.ret = call.ret
              /\ mcts' = mcts
       /\ (/\ call'.op = "run_one_iteration"
            /\ call'.ret.raised = ""
            /\ call'.ret.value = FALSE)
           => \A r \in run_one_iteration(mcts', design) :
                 /\ r.value = FALSE
                 /\ r.raised = ""
                 /\ r.nodes = mcts'.nodes]_vars

\* the second and the third call of run_one_iteration on a search have
\* returned False after the first one added the only child of the root
C27_Witness ==
    /\ call.op = "run_one_iteration"
    /\ call.ret.raised = ""
    /\ call.ret.value = FALSE
    /\ driver.iterations >= 3
    /\ driver.reroots = 0
    /\ Len(mcts.nodes) = 2
    /\ Len(mcts.nodes[1].children) = 1

\* run_one_iteration has returned False again on a tree that has remaining
\* actions off the path select_from takes
C27_StuckReached ==
    /\ call.op = "run_one_iteration"
    /\ call.ret.value = FALSE
    /\ driver.iterations >= 3
    /\ ~SearchExhausted(mcts)

=============================================================================
